---- MODULE Spec2Model ----
(***************************************************************************)
(* Model of sync-my-exts: the GitHub-backed synchronisation protocol       *)
(* (ExtensionSync.createOrUpdateFile / getFileContent) and the credential  *)
(* flow (GitHubAuth.login / logout / isLoggedIn).                          *)
(*                                                                         *)
(* Every `await` of the source is a suspension point, so every async       *)
(* function is modelled as a process whose program counter names the await *)
(* it is suspended at; one action runs the code from one await to the next.*)
(***************************************************************************)
EXTENDS Integers, Sequences, FiniteSets, TLC

(***************************************************************************)
(* Bounds of the model.                                                    *)
(***************************************************************************)
\* longest content string (in characters) handed to an upsert or written
\* by the external writer
MaxLen == 1

\* longest repository string (in characters) handed to the format check
MaxRepoLen == 4

\* most entries of vscode.extensions.all
MaxExts == 2

(***************************************************************************)
(* Values.                                                                 *)
(***************************************************************************)
\* characters of the content strings, as code points: "a" (1 UTF-8 byte)
\* and the euro sign (3 UTF-8 bytes)
Chars == {97, 8364}

RECURSIVE StringsUpTo(_)
StringsUpTo(n) ==
    IF n = 0 THEN {<<>>}
    ELSE LET shorter == StringsUpTo(n - 1)
         IN  shorter \cup {Append(s, c) : s \in shorter, c \in Chars}

Contents == StringsUpTo(MaxLen)

(***************************************************************************)
(* Buffer.from(content) : a JavaScript string to its UTF-8 bytes.          *)
(***************************************************************************)
Utf8Char(cp) ==
    IF cp < 128 THEN <<cp>>
    ELSE IF cp < 2048 THEN <<192 + (cp \div 64), 128 + (cp % 64)>>
    ELSE IF cp >= 55296 /\ cp <= 57343
         THEN <<239, 191, 189>>      \* a lone surrogate becomes U+FFFD
    ELSE <<224 + (cp \div 4096), 128 + ((cp \div 64) % 64), 128 + (cp % 64)>>

\* the characters are encoded one by one; the string is taken by halves
RECURSIVE Utf8Encode(_)
Utf8Encode(s) ==
    IF s = <<>> THEN <<>>
    ELSE IF Len(s) = 1 THEN Utf8Char(s[1])
    ELSE Utf8Encode(SubSeq(s, 1, Len(s) \div 2))
         \o Utf8Encode(SubSeq(s, Len(s) \div 2 + 1, Len(s)))

(***************************************************************************)
(* Buffer.toString() : UTF-8 bytes back to a JavaScript string.            *)
(***************************************************************************)
IsCont(b) == b >= 128 /\ b < 192

\* a byte that is not a continuation byte always begins a character, so a
\* long text is decoded by parts, cut at such a byte near its middle
Utf8Cuts(b) ==
    {k \in (Len(b) \div 2 + 1)..(Len(b) \div 2 + 4) :
        k <= Len(b) /\ ~IsCont(b[k])}

RECURSIVE Utf8Decode(_)
Utf8Decode(b) ==
    IF b = <<>> THEN <<>>
    ELSE IF Len(b) > 4 /\ Utf8Cuts(b) # {}
    THEN LET k == CHOOSE c \in Utf8Cuts(b) : \A d \in Utf8Cuts(b) : c <= d
         IN  Utf8Decode(SubSeq(b, 1, k - 1)) \o Utf8Decode(SubSeq(b, k, Len(b)))
    ELSE LET b1 == b[1]
         IN  IF b1 < 128 THEN <<b1>> \o Utf8Decode(Tail(b))
             ELSE IF b1 >= 194 /\ b1 < 224 /\ Len(b) >= 2 /\ IsCont(b[2])
                  THEN <<(b1 - 192) * 64 + (b[2] - 128)>>
                       \o Utf8Decode(SubSeq(b, 3, Len(b)))
             ELSE IF b1 >= 224 /\ b1 < 240 /\ Len(b) >= 3
                     /\ IsCont(b[2]) /\ IsCont(b[3])
                  THEN <<(b1 - 224) * 4096 + (b[2] - 128) * 64 + (b[3] - 128)>>
                       \o Utf8Decode(SubSeq(b, 4, Len(b)))
             ELSE <<65533>> \o Utf8Decode(Tail(b))

(***************************************************************************)
(* base64: a symbol is a sextet 0..63, the padding sign "=" (written 64)    *)
(* or a line break (written 65).                                           *)
(***************************************************************************)
Pad == 64
NewLine == 65

\* three bytes make four sextets; a last group of one or two bytes is
\* filled up with padding signs
Base64Encode(b) ==
    LET n == Len(b)
        Byte(i) == IF i <= n THEN b[i] ELSE 0
    IN  [k \in 1..(4 * ((n + 2) \div 3)) |->
            LET i == 3 * ((k - 1) \div 4) + 1
                r == (k - 1) % 4
            IN  IF r = 0 THEN Byte(i) \div 4
                ELSE IF r = 1 THEN (Byte(i) % 4) * 16 + (Byte(i + 1) \div 16)
                ELSE IF r = 2
                     THEN IF i + 1 > n THEN Pad
                          ELSE (Byte(i + 1) % 16) * 4 + (Byte(i + 2) \div 64)
                ELSE IF i + 2 > n THEN Pad ELSE Byte(i + 2) % 64]

\* the sextets of a base64 text: line breaks are skipped, the text ends at
\* the first padding sign
Sextets(t) ==
    LET pads == {i \in 1..Len(t) : t[i] = Pad}
        end == IF pads = {} THEN Len(t) + 1
               ELSE CHOOSE i \in pads : \A j \in pads : i <= j
    IN  SelectSeq(SubSeq(t, 1, end - 1), LAMBDA c : c # NewLine)

\* four sextets make three bytes; a last group of two or three sextets
\* makes one or two
SextetsToBytes(x) ==
    LET m == Len(x)
        n == 3 * (m \div 4) + (IF m % 4 = 2 THEN 1 ELSE IF m % 4 = 3 THEN 2 ELSE 0)
    IN  [k \in 1..n |->
            LET i == 4 * ((k - 1) \div 3) + 1
                r == (k - 1) % 3
            IN  IF r = 0 THEN x[i] * 4 + (x[i + 1] \div 16)
                ELSE IF r = 1 THEN (x[i + 1] % 16) * 16 + (x[i + 2] \div 4)
                ELSE (x[i + 2] % 4) * 64 + x[i + 3]]

Base64Decode(t) == SextetsToBytes(Sextets(t))

\* a variant that encodes the string as latin1 (the low byte of each
\* character) instead of UTF-8
EncodeContentLatin1(content) ==
    Base64Encode([i \in 1..Len(content) |-> content[i] % 256])

\* content: Buffer.from(content).toString('base64')
EncodeContent(content) == Base64Encode(Utf8Encode(content))

\* Buffer.from(response.data.content, 'base64').toString()
DecodeContent(text) == Utf8Decode(Base64Decode(text))

(***************************************************************************)
(* JSON text, as the sequence of its characters (code points).             *)
(* A value is a string, an array or an object:                             *)
(*   [t |-> "str", v |-> characters], [t |-> "arr", v |-> <<values>>],     *)
(*   [t |-> "obj", v |-> << <<key, value>>, ... >>]                        *)
(* (the snapshot holds no numbers, booleans or nulls).                     *)
(***************************************************************************)
Lower == <<"a", "b", "c", "d", "e", "f", "g", "h", "i", "j", "k", "l", "m",
           "n", "o", "p", "q", "r", "s", "t", "u", "v", "w", "x", "y", "z">>

Upper == <<"A", "B", "C", "D", "E", "F", "G", "H", "I", "J", "K", "L", "M",
           "N", "O", "P", "Q", "R", "S", "T", "U", "V", "W", "X", "Y", "Z">>

Digits == <<"0", "1", "2", "3", "4", "5", "6", "7", "8", "9">>

\* the code point of a letter, a digit, "." or "-"
CodeOf(ch) ==
    IF \E i \in 1..26 : Lower[i] = ch
    THEN 96 + (CHOOSE i \in 1..26 : Lower[i] = ch)
    ELSE IF \E i \in 1..26 : Upper[i] = ch
    THEN 64 + (CHOOSE i \in 1..26 : Upper[i] = ch)
    ELSE IF \E i \in 1..10 : Digits[i] = ch
    THEN 47 + (CHOOSE i \in 1..10 : Digits[i] = ch)
    ELSE IF ch = "." THEN 46 ELSE 45

Text(chars) == [i \in 1..Len(chars) |-> CodeOf(chars[i])]

Quote == 34
Backslash == 92
Comma == 44
Colon == 58
Space == 32
LineFeed == 10
LBracket == 91
RBracket == 93
LBrace == 123
RBrace == 125

JStr(s) == [t |-> "str", v |-> s]
JArr(a) == [t |-> "arr", v |-> a]
JObj(m) == [t |-> "obj", v |-> m]

\* a string in quotes: the quote and the backslash are escaped (the strings
\* drawn here hold no control characters and no lone surrogates)
RECURSIVE EscapeString(_)
EscapeString(s) ==
    IF s = <<>> THEN <<>>
    ELSE (IF Head(s) \in {Quote, Backslash} THEN <<Backslash, Head(s)>>
          ELSE <<Head(s)>>) \o EscapeString(Tail(s))

QuoteString(s) == <<Quote>> \o EscapeString(s) \o <<Quote>>

Spaces(n) == [i \in 1..n |-> Space]

\* JSON.stringify(value, null, 2), at nesting depth d
RECURSIVE Stringify(_, _)
RECURSIVE StringifyItems(_, _, _)
StringifyItems(v, i, d) ==
    IF i > Len(v.v) THEN <<>>
    ELSE (IF i > 1 THEN <<Comma>> ELSE <<>>)
         \o <<LineFeed>> \o Spaces(2 * (d + 1))
         \o (IF v.t = "obj"
             THEN QuoteString(v.v[i][1]) \o <<Colon, Space>>
                  \o Stringify(v.v[i][2], d + 1)
             ELSE Stringify(v.v[i], d + 1))
         \o StringifyItems(v, i + 1, d)

Stringify(v, d) ==
    IF v.t = "str" THEN QuoteString(v.v)
    ELSE LET open == IF v.t = "obj" THEN LBrace ELSE LBracket
             close == IF v.t = "obj" THEN RBrace ELSE RBracket
         IN  IF v.v = <<>> THEN <<open, close>>
             ELSE <<open>> \o StringifyItems(v, 1, d)
                  \o <<LineFeed>> \o Spaces(2 * d) \o <<close>>

JSONStringify(v) == Stringify(v, 0)

\* JSON.parse: a result is [ok, v, next]; next is the position after the
\* value. A text that is not JSON (of the kinds above) is a SyntaxError.
IsWs(c) == c \in {Space, LineFeed, 13, 9}

RECURSIVE SkipWs(_, _)
SkipWs(t, i) == IF i <= Len(t) /\ IsWs(t[i]) THEN SkipWs(t, i + 1) ELSE i

ParseFail == [ok |-> FALSE, v |-> JStr(<<>>), next |-> 0]

\* the characters from position i (after the opening quote) to the closing
\* quote, unescaped
RECURSIVE ParseChars(_, _, _)
ParseChars(t, i, acc) ==
    IF i > Len(t) THEN ParseFail
    ELSE IF t[i] = Quote THEN [ok |-> TRUE, v |-> JStr(acc), next |-> i + 1]
    ELSE IF t[i] = Backslash
         THEN IF i + 1 <= Len(t) /\ t[i + 1] \in {Quote, Backslash}
              THEN ParseChars(t, i + 2, Append(acc, t[i + 1]))
              ELSE ParseFail
    ELSE IF t[i] < Space THEN ParseFail
    ELSE ParseChars(t, i + 1, Append(acc, t[i]))

RECURSIVE ParseValue(_, _)
RECURSIVE ParseElements(_, _, _)
RECURSIVE ParseMembers(_, _, _)
\* after "[" or ",": the next element, then "," or "]"
ParseElements(t, i, acc) ==
    LET e == ParseValue(t, i)
        j == SkipWs(t, e.next)
    IN  IF ~e.ok \/ j > Len(t) THEN ParseFail
        ELSE IF t[j] = Comma THEN ParseElements(t, j + 1, Append(acc, e.v))
        ELSE IF t[j] = RBracket
             THEN [ok |-> TRUE, v |-> JArr(Append(acc, e.v)), next |-> j + 1]
        ELSE ParseFail

\* after "{" or ",": the next "key": value, then "," or "}"
ParseMembers(t, i, acc) ==
    LET k == SkipWs(t, i)
        key == IF k <= Len(t) /\ t[k] = Quote THEN ParseChars(t, k + 1, <<>>)
               ELSE ParseFail
        c == SkipWs(t, key.next)
        e == IF key.ok /\ c <= Len(t) /\ t[c] = Colon THEN ParseValue(t, c + 1)
             ELSE ParseFail
        j == SkipWs(t, e.next)
    IN  IF ~e.ok \/ j > Len(t) THEN ParseFail
        ELSE IF t[j] = Comma
             THEN ParseMembers(t, j + 1, Append(acc, <<key.v.v, e.v>>))
        ELSE IF t[j] = RBrace
             THEN [ok |-> TRUE, v |-> JObj(Append(acc, <<key.v.v, e.v>>)),
                   next |-> j + 1]
        ELSE ParseFail

ParseValue(t, i) ==
    LET j == SkipWs(t, i)
    IN  IF j > Len(t) THEN ParseFail
        ELSE IF t[j] = Quote THEN ParseChars(t, j + 1, <<>>)
        ELSE IF t[j] = LBracket
             THEN IF SkipWs(t, j + 1) <= Len(t) /\ t[SkipWs(t, j + 1)] = RBracket
                  THEN [ok |-> TRUE, v |-> JArr(<<>>), next |-> SkipWs(t, j + 1) + 1]
                  ELSE ParseElements(t, j + 1, <<>>)
        ELSE IF t[j] = LBrace
             THEN IF SkipWs(t, j + 1) <= Len(t) /\ t[SkipWs(t, j + 1)] = RBrace
                  THEN [ok |-> TRUE, v |-> JObj(<<>>), next |-> SkipWs(t, j + 1) + 1]
                  ELSE ParseMembers(t, j + 1, <<>>)
        ELSE ParseFail

JSONParse(t) ==
    LET r == ParseValue(t, 1)
    IN  IF r.ok /\ SkipWs(t, r.next) = Len(t) + 1 THEN r ELSE ParseFail

\* value.key of a parsed object: the last member of that name; <<>> when
\* there is none (undefined) or the value is not an object
RECURSIVE Member(_, _, _)
Member(v, key, i) ==
    IF v.t # "obj" \/ i = 0 THEN <<>>
    ELSE IF v.v[i][1] = key THEN <<v.v[i][2]>>
    ELSE Member(v, key, i - 1)

Get(v, key) == Member(v, key, Len(v.v))

(***************************************************************************)
(* State.                                                                  *)
(***************************************************************************)
VARIABLES
    remote,         \* the repository's files: path -> <<>> (absent) or <<bytes>>
    secretToken,    \* context.secrets 'github-token' ("" when absent)
    secretUser,     \* context.secrets 'github-user'  ("" when absent)
    cfgRepository,  \* configuration syncMyExts.repository (a string)
    call,           \* the createOrUpdateFile and the getFileContent invocation
    lastWritten,    \* history: per path, what the last successful upsert wrote,
                    \* while nobody else has written the path since
    cfgClientId,    \* configuration syncMyExts.clientId
    cfgClientSecret,\* configuration syncMyExts.clientSecret
    authConfig,     \* GitHubAuth.config: the configuration object taken in
                    \* the constructor
    login,          \* the GitHubAuth.login invocation
    logout,         \* the GitHubAuth.logout invocation
    check,          \* the GitHubAuth.isLoggedIn invocation
    parse,          \* the repository string a call has been handed, and what
                    \* the format check made of it
    change,         \* the changeRepository command invocation
    op,             \* the sync / import command invocation
    localFiles,     \* the local settings files: name -> <<>> or <<content>>
    remoteEnv,      \* whether process.env.VSCODE_REMOTE_ENV is set
    extensionsAll   \* vscode.extensions.all

syncVars == <<remote, cfgRepository, call, lastWritten>>

authVars == <<cfgClientId, cfgClientSecret, authConfig, login, logout, check>>

cmdVars == <<parse, change, op, localFiles, remoteEnv, extensionsAll>>

\* syncMyExts.fileName, left at its default (package configuration)
cfgFileName == "extensions.json"

Paths == {cfgFileName, "settings.json"}

\* the fileName argument of createOrUpdateFile / getFileContent: omitted, or
\* the fixed name syncSettings / importSettings pass
FileArgs == {"", "settings.json"}

Absent == <<>>
File(bytes) == <<bytes>>

\* the revision token of a file: git's blob hash, content-addressed
Sha(bytes) == bytes

\* repository strings, as sequences of characters
RepoChars == {"o", "r", "/"}

RECURSIVE RepoStringsUpTo(_)
RepoStringsUpTo(n) ==
    IF n = 0 THEN {<<>>}
    ELSE LET shorter == RepoStringsUpTo(n - 1)
         IN  shorter \cup {Append(s, c) : s \in shorter, c \in RepoChars}

RepoStrings == RepoStringsUpTo(MaxRepoLen)

RepoValid == <<"o", "/", "r">>
RepoNoSlash == <<"o", "r">>
RepoInputs == {<<>>, RepoValid, RepoNoSlash}

(***************************************************************************)
(* Errors thrown to the caller.                                            *)
(***************************************************************************)
NoError == [kind |-> "none", status |-> 0, msg |-> "", file |-> "", req |-> 0]

\* new Error(msg); file is the file name interpolated into the message
PlainError(m, f) ==
    [kind |-> "Error", status |-> 0, msg |-> m, file |-> f, req |-> 0]

\* the AxiosError that request number n of the call was rejected with
AxiosError(st, n) ==
    [kind |-> "axios", status |-> st, msg |-> "", file |-> "", req |-> n]

MsgLoginRequired == "login required"
MsgSecretStorage == "secret storage failed"
MsgRepoNotEntered == "repository not entered"
MsgRepoFormat == "repository format"
MsgNotFoundSyncFirst == "not found, sync first"

(***************************************************************************)
(* repository.split('/') and the format check that follows it.             *)
(***************************************************************************)
HasSlash(s) == \E i \in 1..Len(s) : s[i] = "/"

FirstSlash(s) == CHOOSE i \in 1..Len(s) : s[i] = "/" /\ \A j \in 1..(i - 1) : s[j] # "/"

RECURSIVE Split(_)
Split(s) ==
    IF ~HasSlash(s) THEN <<s>>
    ELSE <<SubSeq(s, 1, FirstSlash(s) - 1)>>
         \o Split(SubSeq(s, FirstSlash(s) + 1, Len(s)))

\* const [owner, repo] = repository.split('/'); if (!owner || !repo) throw
RepositoryOk(repository) ==
    LET parts == Split(repository)
    IN  /\ Len(parts) >= 2
        /\ parts[1] # <<>>
        /\ parts[2] # <<>>

\* const [owner, repo] = ...: the first two parts; a missing part is
\* undefined (<<>> here: both are falsy)
Coordinate(repository) ==
    LET parts == Split(repository)
    IN  [owner |-> parts[1],
         repo |-> IF Len(parts) >= 2 THEN parts[2] ELSE <<>>]

(***************************************************************************)
(* The remote contents endpoint (GitHub): the answers it can give.         *)
(* A request is answered when it is served; the external writer may act    *)
(* between any two requests.                                               *)
(***************************************************************************)
\* any status that is a failure and not 404: a network failure, a rate
\* limit, a permission or server error
StatusOther == 500
StatusNotFound == 404
StatusOk == 200
StatusCreated == 201
StatusConflict == 409
StatusUnprocessable == 422

Success(st) == st \in {StatusOk, StatusCreated}

\* the store returns the content base64-encoded, line-wrapped
ServerEncode(bytes) ==
    IF bytes = <<>> THEN <<>> ELSE Base64Encode(bytes) \o <<NewLine>>

GetAnswers(f) ==
    {[status |-> StatusOther, content |-> <<>>, sha |-> <<>>]}
    \cup IF remote[f] = Absent
         THEN {[status |-> StatusNotFound, content |-> <<>>, sha |-> <<>>]}
         ELSE {[status |-> StatusOk,
                content |-> ServerEncode(remote[f][1]),
                sha |-> <<Sha(remote[f][1])>>]}

\* PUT {content, sha?}: without sha it creates and is refused when the path
\* exists; with sha it updates and is refused when the sha is not the
\* file's current one. What the store answers to an update of a path that
\* is gone is not fixed: not-found or a refusal.
PutAnswers(f, data) ==
    {[status |-> StatusOther, file |-> remote[f]]}
    \cup IF data.sha = <<>>
         THEN IF remote[f] = Absent
              THEN {[status |-> StatusCreated,
                     file |-> File(Base64Decode(data.content))]}
              ELSE {[status |-> StatusUnprocessable, file |-> remote[f]]}
         ELSE IF remote[f] = Absent
              THEN {[status |-> StatusNotFound, file |-> remote[f]],
                    [status |-> StatusUnprocessable, file |-> remote[f]]}
              ELSE IF Sha(remote[f][1]) = data.sha[1]
                   THEN {[status |-> StatusOk,
                          file |-> File(Base64Decode(data.content))]}
                   ELSE {[status |-> StatusConflict, file |-> remote[f]]}

\* the requests a call has issued, with the store's answers; existed and
\* stale say how the file stood when the request was served (stale: the
\* file's sha was not the one the request carried), changed whether the
\* request changed the file
GetEntry(f, a) ==
    [op |-> "GET", sha |-> <<>>, status |-> a.status,
     existed |-> remote[f] # Absent, stale |-> FALSE, changed |-> FALSE,
     respSha |-> a.sha]

PutEntry(f, data, a) ==
    [op |-> "PUT", sha |-> data.sha, status |-> a.status,
     existed |-> remote[f] # Absent,
     stale |-> remote[f] # Absent /\ data.sha # <<>>
               /\ data.sha # <<Sha(remote[f][1])>>,
     changed |-> a.file # remote[f],
     respSha |-> <<>>]

(***************************************************************************)
(* createOrUpdateFile and getFileContent.                                  *)
(***************************************************************************)
Procs == {"upsert", "fetch"}

IdleCall ==
    [pc |-> "idle", content |-> <<>>, targetFile |-> "", input |-> <<>>,
     sha |-> <<>>, outcome |-> "none", value |-> <<>>, error |-> NoError,
     log |-> <<>>, expect |-> <<>>]

Throw(c, e) == [c EXCEPT !.pc = "done", !.outcome = "error", !.error = e]

ReturnOk(c, v) == [c EXCEPT !.pc = "done", !.outcome = "ok", !.value = v]

\* a variant that also takes the conflict answer for "no such file"
IsNotFoundOrConflict(st) == st \in {StatusNotFound, StatusConflict}

\* axios.isAxiosError(error) && error.response?.status === 404
IsNotFound(st) == st = StatusNotFound

\* a variant that forgets the sha of the update
UpdateDataNoSha(content, sha) == [content |-> EncodeContent(content), sha |-> <<>>]

\* {message, content, sha} of the update and {message, content} of the create
UpdateData(content, sha) == [content |-> EncodeContent(content), sha |-> sha]

CreateData(content) == [content |-> EncodeContent(content), sha |-> <<>>]

\* const targetFile = fileName || config.fileName
TargetFile(fileName) == IF fileName = "" THEN cfgFileName ELSE fileName

\* a variant whose message names the configured file, not the requested one
NotFoundErrorConfigName(targetFile) == PlainError(MsgNotFoundSyncFirst, cfgFileName)

\* the error getFileContent throws for a 404
NotFoundError(targetFile) == PlainError(MsgNotFoundSyncFirst, targetFile)

\* after getRepository returned: the format check, then the first request
AfterRepository(c, repository) ==
    IF RepositoryOk(repository)
    THEN [c EXCEPT !.pc = "get1"]
    ELSE Throw(c, PlainError(MsgRepoFormat, ""))

\* a result is taken by the awaiting caller in the turn it is produced in:
\* nothing else runs while a call stands at "done"
NoneDone == \A q \in Procs : call[q].pc # "done"

\* createOrUpdateFile and getFileContent are awaited by the command that
\* calls them; here one command runs at a time
CanStart(p) == \A q \in Procs : call[q].pc = "idle"

Start(p) ==
    /\ CanStart(p)
    /\ \E content \in (IF p = "upsert" THEN Contents ELSE {<<>>}),
          fileName \in FileArgs :
         call' = [call EXCEPT ![p] =
                    [IdleCall EXCEPT !.pc = "token", !.content = content,
                                     !.targetFile = TargetFile(fileName)]]
    /\ UNCHANGED <<remote, secretToken, secretUser, cfgRepository, lastWritten>>
    /\ UNCHANGED authVars
    /\ UNCHANGED cmdVars

\* context.secrets.get('github-token'): the value, or a rejection
SecretReads == {[ok |-> TRUE, value |-> secretToken], [ok |-> FALSE, value |-> ""]}

\* a variant without the try/catch: a rejected read is thrown on
GetStoredTokenNoCatch(r) ==
    [threw |-> ~r.ok, token |-> IF r.ok THEN r.value ELSE ""]

\* getStoredToken: the stored token, or undefined ("" here) when none is
\* stored or the read is rejected
GetStoredToken(r) ==
    [threw |-> FALSE, token |-> IF r.ok THEN r.value ELSE ""]

\* a variant that takes any answer of the store for a token
NoTokenNever(token) == FALSE

\* if (!token)
NoToken(token) == token = ""

\* getGitHubToken, then getRepository up to its prompt
GetGitHubToken(p) ==
    /\ NoneDone
    /\ call[p].pc = "token"
    /\ \E r \in SecretReads :
         LET t == GetStoredToken(r)
         IN  call' = [call EXCEPT ![p] =
                        IF t.threw
                        THEN Throw(@, PlainError(MsgSecretStorage, ""))
                        ELSE IF NoToken(t.token)
                        THEN Throw(@, PlainError(MsgLoginRequired, ""))
                        ELSE IF cfgRepository = <<>>
                             THEN [@ EXCEPT !.pc = "prompt"]
                             ELSE AfterRepository(@, cfgRepository)]
    /\ UNCHANGED <<remote, secretToken, secretUser, cfgRepository, lastWritten>>
    /\ UNCHANGED authVars
    /\ UNCHANGED cmdVars

\* getRepository: the answer to showInputBox (<<>> also stands for a
\* dismissed prompt: both are falsy)
RepositoryPrompt(p) ==
    /\ NoneDone
    /\ call[p].pc = "prompt"
    /\ \E inputRepository \in RepoInputs :
         call' = [call EXCEPT ![p] =
                    IF inputRepository = <<>>
                    THEN Throw(@, PlainError(MsgRepoNotEntered, ""))
                    ELSE [@ EXCEPT !.pc = "save", !.input = inputRepository]]
    /\ UNCHANGED <<remote, secretToken, secretUser, cfgRepository, lastWritten>>
    /\ UNCHANGED authVars
    /\ UNCHANGED cmdVars

\* getRepository: configuration update completed; back in the caller
RepositorySave(p) ==
    /\ NoneDone
    /\ call[p].pc = "save"
    /\ cfgRepository' = call[p].input
    /\ call' = [call EXCEPT ![p] = AfterRepository(@, call[p].input)]
    /\ UNCHANGED <<remote, secretToken, secretUser, lastWritten>>
    /\ UNCHANGED authVars
    /\ UNCHANGED cmdVars

\* createOrUpdateFile: the answer to the first GET (existence check)
UpsertGet1 ==
    /\ NoneDone
    /\ call["upsert"].pc = "get1"
    /\ \E a \in GetAnswers(call["upsert"].targetFile) :
         LET c == call["upsert"]
             logged == [c EXCEPT !.log = Append(@, GetEntry(c.targetFile, a))]
         IN  call' = [call EXCEPT !["upsert"] =
                        IF Success(a.status) THEN [logged EXCEPT !.pc = "get2"]
                        ELSE IF IsNotFound(a.status)
                             THEN [logged EXCEPT !.pc = "create"]
                             ELSE Throw(logged, AxiosError(a.status, Len(logged.log)))]
    /\ UNCHANGED <<remote, secretToken, secretUser, cfgRepository, lastWritten>>
    /\ UNCHANGED authVars
    /\ UNCHANGED cmdVars

\* createOrUpdateFile: the answer to the second GET, whose sha is used
UpsertGet2 ==
    /\ NoneDone
    /\ call["upsert"].pc = "get2"
    /\ \E a \in GetAnswers(call["upsert"].targetFile) :
         LET c == call["upsert"]
             logged == [c EXCEPT !.log = Append(@, GetEntry(c.targetFile, a))]
         IN  call' = [call EXCEPT !["upsert"] =
                        IF Success(a.status)
                        THEN [logged EXCEPT !.pc = "put", !.sha = a.sha]
                        ELSE IF IsNotFound(a.status)
                             THEN [logged EXCEPT !.pc = "create"]
                             ELSE Throw(logged, AxiosError(a.status, Len(logged.log)))]
    /\ UNCHANGED <<remote, secretToken, secretUser, cfgRepository, lastWritten>>
    /\ UNCHANGED authVars
    /\ UNCHANGED cmdVars

\* history: a successful upsert of content to path f
NoteWritten(f, content) == [lastWritten EXCEPT ![f] = <<content>>]

\* createOrUpdateFile: the answer to the update PUT
UpsertPut ==
    /\ NoneDone
    /\ call["upsert"].pc = "put"
    /\ LET c == call["upsert"]
           data == UpdateData(c.content, c.sha)
       IN  \E a \in PutAnswers(c.targetFile, data) :
             LET logged == [c EXCEPT !.log = Append(@, PutEntry(c.targetFile, data, a))]
             IN  /\ remote' = [remote EXCEPT ![c.targetFile] = a.file]
                 /\ call' = [call EXCEPT !["upsert"] =
                               IF Success(a.status) THEN ReturnOk(logged, <<>>)
                               ELSE IF IsNotFound(a.status)
                                    THEN [logged EXCEPT !.pc = "create"]
                                    ELSE Throw(logged, AxiosError(a.status, Len(logged.log)))]
                 /\ lastWritten' = IF Success(a.status)
                                   THEN NoteWritten(c.targetFile, c.content)
                                   ELSE lastWritten
    /\ UNCHANGED <<secretToken, secretUser, cfgRepository>>
    /\ UNCHANGED authVars
    /\ UNCHANGED cmdVars

\* createOrUpdateFile: the answer to the create PUT issued in the catch block
UpsertCreate ==
    /\ NoneDone
    /\ call["upsert"].pc = "create"
    /\ LET c == call["upsert"]
           data == CreateData(c.content)
       IN  \E a \in PutAnswers(c.targetFile, data) :
             LET logged == [c EXCEPT !.log = Append(@, PutEntry(c.targetFile, data, a))]
             IN  /\ remote' = [remote EXCEPT ![c.targetFile] = a.file]
                 /\ call' = [call EXCEPT !["upsert"] =
                               IF Success(a.status) THEN ReturnOk(logged, <<>>)
                               ELSE Throw(logged, AxiosError(a.status, Len(logged.log)))]
                 /\ lastWritten' = IF Success(a.status)
                                   THEN NoteWritten(c.targetFile, c.content)
                                   ELSE lastWritten
    /\ UNCHANGED <<secretToken, secretUser, cfgRepository>>
    /\ UNCHANGED authVars
    /\ UNCHANGED cmdVars

\* getFileContent: the answer to its GET
FetchGet ==
    /\ NoneDone
    /\ call["fetch"].pc = "get1"
    /\ \E a \in GetAnswers(call["fetch"].targetFile) :
         LET c == call["fetch"]
             logged == [c EXCEPT !.log = Append(@, GetEntry(c.targetFile, a)),
                                 !.expect = lastWritten[c.targetFile]]
         IN  call' = [call EXCEPT !["fetch"] =
                        IF Success(a.status)
                        THEN ReturnOk(logged, DecodeContent(a.content))
                        ELSE IF IsNotFound(a.status)
                             THEN Throw(logged, NotFoundError(c.targetFile))
                             ELSE Throw(logged, AxiosError(a.status, Len(logged.log)))]
    /\ UNCHANGED <<remote, secretToken, secretUser, cfgRepository, lastWritten>>
    /\ UNCHANGED authVars
    /\ UNCHANGED cmdVars

\* the caller has taken the result; the next invocation may begin
Return(p) ==
    /\ call[p].pc = "done"
    /\ call' = [call EXCEPT ![p] = IdleCall]
    /\ UNCHANGED <<remote, secretToken, secretUser, cfgRepository, lastWritten>>
    /\ UNCHANGED authVars
    /\ UNCHANGED cmdVars

\* somebody else writes or deletes a file of the repository
ExternalWrite ==
    /\ NoneDone
    /\ \E f \in DOMAIN remote, content \in Contents :
         /\ remote[f] # File(Utf8Encode(content))
         /\ remote' = [remote EXCEPT ![f] = File(Utf8Encode(content))]
         /\ lastWritten' = [lastWritten EXCEPT ![f] = <<>>]
    /\ UNCHANGED <<secretToken, secretUser, cfgRepository, call>>
    /\ UNCHANGED authVars
    /\ UNCHANGED cmdVars

ExternalDelete ==
    /\ NoneDone
    /\ \E f \in DOMAIN remote :
         /\ remote[f] # Absent
         /\ remote' = [remote EXCEPT ![f] = Absent]
         /\ lastWritten' = [lastWritten EXCEPT ![f] = <<>>]
    /\ UNCHANGED <<secretToken, secretUser, cfgRepository, call>>
    /\ UNCHANGED authVars
    /\ UNCHANGED cmdVars

(***************************************************************************)
(* GitHubAuth: login, logout, isLoggedIn.                                  *)
(***************************************************************************)
Tokens == {"t1", "t2"}

\* the identity the identity endpoint returns for a token, as saved
\* (JSON.stringify(user))
UserOf(token) == IF token = "t1" THEN "u1" ELSE "u2"

Note(kind, text, arg) == [kind |-> kind, text |-> text, arg |-> arg]

Step(name, ok) == [step |-> name, ok |-> ok]

IdleLogin ==
    [pc |-> "idle", clientId |-> "", clientSecret |-> "", token |-> "",
     user |-> "", result |-> "none", steps |-> <<>>, notes |-> <<>>,
     before |-> <<"", "">>, interfered |-> FALSE]

IdleLogout ==
    [pc |-> "idle", steps |-> <<>>, notes |-> <<>>, hadToken |-> FALSE,
     relogged |-> FALSE]

IdleCheck ==
    [pc |-> "idle", token |-> "", result |-> "none", threw |-> FALSE,
     stored |-> "", readOk |-> FALSE, lookups |-> <<>>]

\* as for the calls above: a result is taken in the turn it is produced in
NoneDoneAuth == login.pc # "done" /\ logout.pc # "done" /\ check.pc # "done"

\* if (!clientId || !clientSecret) on the configuration object of the
\* constructor
ConfigMissing(cfg) == cfg.clientId = "" \/ cfg.clientSecret = ""

\* login: return false without a notification (setup was cancelled)
LoginReturnFalse(l) == [l EXCEPT !.pc = "done", !.result = "false"]

\* login: the catch block
LoginCatch(l) ==
    [l EXCEPT !.pc = "done", !.result = "false",
              !.notes = Append(@, Note("error", "login failed", ""))]

\* login from getOAuth2Client to the call of openExternal
LoginOpenBrowser(l) ==
    IF ConfigMissing(authConfig) THEN LoginCatch(l)
    ELSE [l EXCEPT !.pc = "browser"]

LoginStart ==
    /\ NoneDoneAuth
    /\ login.pc = "idle"
    /\ login' = LET l == [IdleLogin EXCEPT !.before = <<secretToken, secretUser>>]
                IN  IF ConfigMissing(authConfig)
                    THEN [l EXCEPT !.pc = "clientId"]
                    ELSE LoginOpenBrowser(l)
    /\ UNCHANGED <<secretToken, secretUser, cfgClientId, cfgClientSecret,
                   authConfig, logout, check>>
    /\ UNCHANGED syncVars
    /\ UNCHANGED cmdVars

\* setupOAuthApp: the answer to the Client ID prompt
LoginClientId ==
    /\ NoneDoneAuth
    /\ login.pc = "clientId"
    /\ \E clientId \in {"", "id"} :
         login' = IF clientId = "" THEN LoginReturnFalse(login)
                  ELSE [login EXCEPT !.pc = "clientSecret", !.clientId = clientId]
    /\ UNCHANGED <<secretToken, secretUser, cfgClientId, cfgClientSecret,
                   authConfig, logout, check>>
    /\ UNCHANGED syncVars
    /\ UNCHANGED cmdVars

\* setupOAuthApp: the answer to the Client Secret prompt
LoginClientSecret ==
    /\ NoneDoneAuth
    /\ login.pc = "clientSecret"
    /\ \E clientSecret \in {"", "secret"} :
         login' = IF clientSecret = "" THEN LoginReturnFalse(login)
                  ELSE [login EXCEPT !.pc = "saveId", !.clientSecret = clientSecret]
    /\ UNCHANGED <<secretToken, secretUser, cfgClientId, cfgClientSecret,
                   authConfig, logout, check>>
    /\ UNCHANGED syncVars
    /\ UNCHANGED cmdVars

\* setupOAuthApp: config.update('clientId') completed
LoginSaveId ==
    /\ NoneDoneAuth
    /\ login.pc = "saveId"
    /\ cfgClientId' = login.clientId
    /\ login' = [login EXCEPT !.pc = "saveSecret"]
    /\ UNCHANGED <<secretToken, secretUser, cfgClientSecret, authConfig,
                   logout, check>>
    /\ UNCHANGED syncVars
    /\ UNCHANGED cmdVars

\* setupOAuthApp: config.update('clientSecret') completed; back in login
LoginSaveSecret ==
    /\ NoneDoneAuth
    /\ login.pc = "saveSecret"
    /\ cfgClientSecret' = login.clientSecret
    /\ login' = LoginOpenBrowser(login)
    /\ UNCHANGED <<secretToken, secretUser, cfgClientId, authConfig,
                   logout, check>>
    /\ UNCHANGED syncVars
    /\ UNCHANGED cmdVars

\* login: openExternal settled (resolved with true or false, or rejected)
LoginBrowser ==
    /\ NoneDoneAuth
    /\ login.pc = "browser"
    /\ \E settled \in {"true", "false", "rejected"} :
         login' = LET l == [login EXCEPT
                              !.steps = Append(@, Step("browser", settled # "rejected"))]
                  IN  IF settled = "rejected" THEN LoginCatch(l)
                      ELSE [l EXCEPT !.pc = "code"]
    /\ UNCHANGED <<secretToken, secretUser, cfgClientId, cfgClientSecret,
                   authConfig, logout, check>>
    /\ UNCHANGED syncVars
    /\ UNCHANGED cmdVars

\* login: the answer to the authorization code prompt
LoginCode ==
    /\ NoneDoneAuth
    /\ login.pc = "code"
    /\ \E authCode \in {"", "code"} :
         login' = LET l == [login EXCEPT
                              !.steps = Append(@, Step("code", authCode # ""))]
                  IN  IF authCode = "" THEN LoginCatch(l)
                      ELSE [l EXCEPT !.pc = "exchange"]
    /\ UNCHANGED <<secretToken, secretUser, cfgClientId, cfgClientSecret,
                   authConfig, logout, check>>
    /\ UNCHANGED syncVars
    /\ UNCHANGED cmdVars

\* a variant that goes on although the token exchange failed
LoginAfterExchangeUnchecked(l, ok, token) ==
    [l EXCEPT !.steps = Append(@, Step("exchange", ok)),
              !.pc = "identity", !.token = token]

\* login: after oauth2.getToken
LoginAfterExchange(l, ok, token) ==
    LET m == [l EXCEPT !.steps = Append(@, Step("exchange", ok))]
    IN  IF ok THEN [m EXCEPT !.pc = "identity", !.token = token]
        ELSE LoginCatch(m)

LoginExchange ==
    /\ NoneDoneAuth
    /\ login.pc = "exchange"
    /\ \/ \E token \in Tokens : login' = LoginAfterExchange(login, TRUE, token)
       \/ login' = LoginAfterExchange(login, FALSE, "t1")
    /\ UNCHANGED <<secretToken, secretUser, cfgClientId, cfgClientSecret,
                   authConfig, logout, check>>
    /\ UNCHANGED syncVars
    /\ UNCHANGED cmdVars

\* login: getGitHubUser(token) settled
LoginIdentity ==
    /\ NoneDoneAuth
    /\ login.pc = "identity"
    /\ \E ok \in BOOLEAN :
         login' = LET l == [login EXCEPT
                              !.steps = Append(@, Step("identity", ok))]
                  IN  IF ok THEN [l EXCEPT !.pc = "storeToken",
                                           !.user = UserOf(login.token)]
                      ELSE LoginCatch(l)
    /\ UNCHANGED <<secretToken, secretUser, cfgClientId, cfgClientSecret,
                   authConfig, logout, check>>
    /\ UNCHANGED syncVars
    /\ UNCHANGED cmdVars

\* history: a login stored the token after a logout had deleted it
NoteRelogged(lo) == IF lo.pc = "delUser" THEN [lo EXCEPT !.relogged = TRUE] ELSE lo

\* saveToken: secrets.store('github-token') settled
LoginStoreToken ==
    /\ NoneDoneAuth
    /\ login.pc = "storeToken"
    /\ \E ok \in BOOLEAN :
         /\ login' = LET l == [login EXCEPT
                                 !.steps = Append(@, Step("storeToken", ok))]
                     IN  IF ok THEN [l EXCEPT !.pc = "storeUser"]
                         ELSE LoginCatch(l)
         /\ secretToken' = IF ok THEN login.token ELSE secretToken
         /\ logout' = IF ok THEN NoteRelogged(logout) ELSE logout
    /\ UNCHANGED <<secretUser, cfgClientId, cfgClientSecret, authConfig, check>>
    /\ UNCHANGED syncVars
    /\ UNCHANGED cmdVars

\* saveToken: secrets.store('github-user') settled; the notification
LoginStoreUser ==
    /\ NoneDoneAuth
    /\ login.pc = "storeUser"
    /\ \E ok \in BOOLEAN :
         /\ login' = LET l == [login EXCEPT
                                 !.steps = Append(@, Step("storeUser", ok))]
                     IN  IF ok
                         THEN [l EXCEPT !.pc = "done", !.result = "true",
                                        !.notes = Append(@, Note("info", "logged in", l.user))]
                         ELSE LoginCatch(l)
         /\ secretUser' = IF ok THEN login.user ELSE secretUser
    /\ UNCHANGED <<secretToken, cfgClientId, cfgClientSecret, authConfig,
                   logout, check>>
    /\ UNCHANGED syncVars
    /\ UNCHANGED cmdVars

LoginReturn ==
    /\ login.pc = "done"
    /\ login' = IdleLogin
    /\ UNCHANGED <<secretToken, secretUser, cfgClientId, cfgClientSecret,
                   authConfig, logout, check>>
    /\ UNCHANGED syncVars
    /\ UNCHANGED cmdVars

\* history: a logout touched the store while a login was under way
NoteInterfered(l) ==
    IF l.pc \in {"idle", "done"} THEN l ELSE [l EXCEPT !.interfered = TRUE]

\* logout: the catch block
LogoutCatch(lo) ==
    [lo EXCEPT !.pc = "done",
               !.notes = Append(@, Note("error", "logout failed", ""))]

LogoutStart ==
    /\ NoneDoneAuth
    /\ logout.pc = "idle"
    /\ logout' = [IdleLogout EXCEPT !.pc = "delToken",
                                    !.hadToken = secretToken # ""]
    /\ UNCHANGED <<secretToken, secretUser, cfgClientId, cfgClientSecret,
                   authConfig, login, check>>
    /\ UNCHANGED syncVars
    /\ UNCHANGED cmdVars

\* logout: secrets.delete('github-token') settled
LogoutDeleteToken ==
    /\ NoneDoneAuth
    /\ logout.pc = "delToken"
    /\ \E ok \in BOOLEAN :
         /\ logout' = LET lo == [logout EXCEPT
                                   !.steps = Append(@, Step("delToken", ok))]
                      IN  IF ok THEN [lo EXCEPT !.pc = "delUser"]
                          ELSE LogoutCatch(lo)
         /\ secretToken' = IF ok THEN "" ELSE secretToken
         /\ login' = IF ok THEN NoteInterfered(login) ELSE login
    /\ UNCHANGED <<secretUser, cfgClientId, cfgClientSecret, authConfig, check>>
    /\ UNCHANGED syncVars
    /\ UNCHANGED cmdVars

\* a variant that reports success whatever the deletion did
LogoutAfterDeleteUserAlwaysInfo(lo, ok) ==
    [lo EXCEPT !.steps = Append(@, Step("delUser", ok)), !.pc = "done",
               !.notes = Append(@, Note("info", "logged out", ""))]

\* logout: after secrets.delete('github-user')
LogoutAfterDeleteUser(lo, ok) ==
    LET m == [lo EXCEPT !.steps = Append(@, Step("delUser", ok))]
    IN  IF ok
        THEN [m EXCEPT !.pc = "done",
                       !.notes = Append(@, Note("info", "logged out", ""))]
        ELSE LogoutCatch(m)

\* logout: secrets.delete('github-user') settled; the notification
LogoutDeleteUser ==
    /\ NoneDoneAuth
    /\ logout.pc = "delUser"
    /\ \E ok \in BOOLEAN :
         /\ logout' = LogoutAfterDeleteUser(logout, ok)
         /\ secretUser' = IF ok THEN "" ELSE secretUser
         /\ login' = IF ok THEN NoteInterfered(login) ELSE login
    /\ UNCHANGED <<secretToken, cfgClientId, cfgClientSecret, authConfig, check>>
    /\ UNCHANGED syncVars
    /\ UNCHANGED cmdVars

LogoutReturn ==
    /\ logout.pc = "done"
    /\ logout' = IdleLogout
    /\ UNCHANGED <<secretToken, secretUser, cfgClientId, cfgClientSecret,
                   authConfig, login, check>>
    /\ UNCHANGED syncVars
    /\ UNCHANGED cmdVars

IsLoggedInStart ==
    /\ NoneDoneAuth
    /\ check.pc = "idle"
    /\ check' = [IdleCheck EXCEPT !.pc = "read"]
    /\ UNCHANGED <<secretToken, secretUser, cfgClientId, cfgClientSecret,
                   authConfig, login, logout>>
    /\ UNCHANGED syncVars
    /\ UNCHANGED cmdVars

\* isLoggedIn: getStoredToken settled
IsLoggedInRead ==
    /\ NoneDoneAuth
    /\ check.pc = "read"
    /\ \E r \in SecretReads :
         LET t == GetStoredToken(r)
             c == [check EXCEPT !.stored = secretToken, !.readOk = r.ok,
                                !.token = t.token]
         IN  check' = IF t.threw THEN [c EXCEPT !.pc = "done", !.threw = TRUE]
                      ELSE IF t.token = ""
                      THEN [c EXCEPT !.pc = "done", !.result = "false"]
                      ELSE [c EXCEPT !.pc = "lookup"]
    /\ UNCHANGED <<secretToken, secretUser, cfgClientId, cfgClientSecret,
                   authConfig, login, logout>>
    /\ UNCHANGED syncVars
    /\ UNCHANGED cmdVars

\* isLoggedIn: after getGitHubUser(token)
IsLoggedInAfterLookup(c, ok) ==
    [c EXCEPT !.pc = "done", !.result = IF ok THEN "true" ELSE "false",
              !.lookups = Append(@, [token |-> c.token, ok |-> ok])]

\* isLoggedIn: getGitHubUser(token) settled
IsLoggedInLookup ==
    /\ NoneDoneAuth
    /\ check.pc = "lookup"
    /\ \E ok \in BOOLEAN : check' = IsLoggedInAfterLookup(check, ok)
    /\ UNCHANGED <<secretToken, secretUser, cfgClientId, cfgClientSecret,
                   authConfig, login, logout>>
    /\ UNCHANGED syncVars
    /\ UNCHANGED cmdVars

IsLoggedInReturn ==
    /\ check.pc = "done"
    /\ check' = IdleCheck
    /\ UNCHANGED <<secretToken, secretUser, cfgClientId, cfgClientSecret,
                   authConfig, login, logout>>
    /\ UNCHANGED syncVars
    /\ UNCHANGED cmdVars

(***************************************************************************)
(* The repository format check of createOrUpdateFile and getFileContent,   *)
(* on any string getRepository may return.                                 *)
(***************************************************************************)
IdleParse ==
    [pc |-> "idle", repository |-> <<>>, by |-> "", outcome |-> "none",
     owner |-> <<>>, repo |-> <<>>, error |-> NoError]

\* split, the check, and the owner and repo that go into apiUrl
ParseRepository(p) ==
    /\ parse.pc = "idle"
    /\ parse' = IF RepositoryOk(parse.repository)
                THEN [parse EXCEPT !.pc = "done", !.by = p, !.outcome = "ok",
                                   !.owner = Coordinate(parse.repository).owner,
                                   !.repo = Coordinate(parse.repository).repo]
                ELSE [parse EXCEPT !.pc = "done", !.by = p, !.outcome = "error",
                                   !.error = PlainError(MsgRepoFormat, "")]
    /\ UNCHANGED <<change, op, localFiles, remoteEnv, extensionsAll>>
    /\ UNCHANGED <<secretToken, secretUser>>
    /\ UNCHANGED syncVars
    /\ UNCHANGED authVars

\* the caller has gone on (to its request, or out with the error)
ParseReturn ==
    /\ parse.pc = "done"
    /\ parse' = [IdleParse EXCEPT !.repository = parse.repository]
    /\ UNCHANGED <<change, op, localFiles, remoteEnv, extensionsAll>>
    /\ UNCHANGED <<secretToken, secretUser>>
    /\ UNCHANGED syncVars
    /\ UNCHANGED authVars

(***************************************************************************)
(* The changeRepository command.                                           *)
(***************************************************************************)
IdleChange == [pc |-> "idle", input |-> <<>>, notes |-> <<>>]

\* the command is invoked: showInputBox is shown
ChangeRepositoryStart ==
    /\ NoneDone
    /\ change.pc = "idle"
    /\ change' = [IdleChange EXCEPT !.pc = "prompt"]
    /\ UNCHANGED <<parse, op, localFiles, remoteEnv, extensionsAll>>
    /\ UNCHANGED <<secretToken, secretUser>>
    /\ UNCHANGED syncVars
    /\ UNCHANGED authVars

\* the answer to the prompt (<<>>: left empty or dismissed)
ChangeRepositoryPrompt ==
    /\ NoneDone
    /\ change.pc = "prompt"
    /\ \E newRepository \in RepoInputs :
         change' = IF newRepository = <<>> THEN [change EXCEPT !.pc = "done"]
                   ELSE [change EXCEPT !.pc = "save", !.input = newRepository]
    /\ UNCHANGED <<parse, op, localFiles, remoteEnv, extensionsAll>>
    /\ UNCHANGED <<secretToken, secretUser>>
    /\ UNCHANGED syncVars
    /\ UNCHANGED authVars

\* configuration update completed; the notification
ChangeRepositorySave ==
    /\ NoneDone
    /\ change.pc = "save"
    /\ cfgRepository' = change.input
    /\ change' = [change EXCEPT !.pc = "done",
                     !.notes = Append(@, Note("info", "repository changed", ""))]
    /\ UNCHANGED <<parse, op, localFiles, remoteEnv, extensionsAll>>
    /\ UNCHANGED <<secretToken, secretUser>>
    /\ UNCHANGED <<remote, call, lastWritten>>
    /\ UNCHANGED authVars

ChangeRepositoryReturn ==
    /\ change.pc = "done"
    /\ change' = IdleChange
    /\ UNCHANGED <<parse, op, localFiles, remoteEnv, extensionsAll>>
    /\ UNCHANGED <<secretToken, secretUser>>
    /\ UNCHANGED syncVars
    /\ UNCHANGED authVars

\* a sync command and an import command invoked independently of each other:
\* the second may begin while the first is suspended
StartConcurrent(p) ==
    /\ NoneDone
    /\ call[p].pc = "idle"
    /\ \E content \in (IF p = "upsert" THEN Contents ELSE {<<>>}),
          fileName \in FileArgs :
         call' = [call EXCEPT ![p] =
                    [IdleCall EXCEPT !.pc = "token", !.content = content,
                                     !.targetFile = TargetFile(fileName)]]
    /\ UNCHANGED <<remote, secretToken, secretUser, cfgRepository, lastWritten>>
    /\ UNCHANGED authVars
    /\ UNCHANGED cmdVars

LocalNames == {"user", "machine"}

(***************************************************************************)
(* The sync and import commands. A command awaits createOrUpdateFile or    *)
(* getFileContent: it starts the call and goes on when the call has ended. *)
(***************************************************************************)
IdleOp ==
    [kind |-> "none", pc |-> "idle", calls |-> <<>>, notes |-> <<>>,
     snapshot |-> <<>>, items |-> <<>>, expect |-> <<>>, selected |-> <<>>,
     i |-> 0, events |-> <<>>, writes |-> <<>>]

OpNote(kind, text, error) == [kind |-> kind, text |-> text, error |-> error]

\* what a command keeps of a call that has ended; history: whether the
\* call issued a request, and what the store held when it served the first
\* one (<<>>: nothing, else <<bytes>>)
CallSummary(c) ==
    [file |-> c.targetFile, outcome |-> c.outcome, error |-> c.error,
     value |-> c.value, asked |-> c.log # <<>>,
     served |-> IF c.log # <<>> /\ Success(c.log[1].status)
                THEN c.log[1].respSha ELSE <<>>,
     absent |-> c.log # <<>> /\ ~c.log[1].existed]

\* the call a command starts
NewCall(content, fileName) ==
    [IdleCall EXCEPT !.pc = "token", !.content = content,
                     !.targetFile = TargetFile(fileName)]

MsgSynced == "extensions synced"
MsgSyncFailed == "sync failed"
MsgImported == "extensions imported"
MsgImportFailed == "import failed"
MsgSyntaxError == "SyntaxError"
MsgTypeError == "TypeError"

\* the command's try block completed: showInformationMessage
CommandOk(o, text) ==
    [o EXCEPT !.pc = "done", !.notes = Append(@, OpNote("info", text, NoError))]

\* the command's catch block: showErrorMessage with the error
CommandFailed(o, text, error) ==
    [o EXCEPT !.pc = "done", !.notes = Append(@, OpNote("error", text, error))]

\* commands are taken one at a time
OpCanStart ==
    /\ NoneDone
    /\ op.pc = "idle"
    /\ \A q \in Procs : call[q].pc = "idle"

OpReturn ==
    /\ op.pc = "done"
    /\ op' = IdleOp
    /\ UNCHANGED <<parse, change, localFiles, remoteEnv, extensionsAll>>
    /\ UNCHANGED <<secretToken, secretUser>>
    /\ UNCHANGED syncVars
    /\ UNCHANGED authVars

(***************************************************************************)
(* syncExtensions and importExtensions.                                    *)
(***************************************************************************)
\* entries of vscode.extensions.all: an optional field is <<>> or <<value>>
ExtBuiltin ==
    [id |-> Text(<<"b">>), isBuiltin |-> TRUE, displayName |-> <<>>,
     name |-> Text(<<"b">>), version |-> Text(<<"1">>), description |-> <<>>]

\* displayName is the euro sign
ExtFull ==
    [id |-> Text(<<"p", ".", "a">>), isBuiltin |-> FALSE,
     displayName |-> <<(<<8364>>)>>, name |-> Text(<<"a">>),
     version |-> Text(<<"1", ".", "0">>), description |-> <<Text(<<"d">>)>>]

\* no displayName, no description; the name ends with a quote
ExtBare ==
    [id |-> Text(<<"p", ".", "q">>), isBuiltin |-> FALSE,
     displayName |-> <<>>, name |-> <<113, Quote>>,
     version |-> Text(<<"2">>), description |-> <<>>]

ExtUniverse == {ExtBuiltin, ExtFull, ExtBare}

\* the lists of distinct extensions, up to the bound
ExtensionLists ==
    {l \in UNION {[1..n -> ExtUniverse] : n \in 0..MaxExts} :
        \A i, j \in 1..Len(l) : l[i] = l[j] => i = j}

VscodeVersion == Text(<<"1", ".", "9">>)

\* new Date().toISOString(), shortened
Timestamps == {Text(<<"2", "0", "2", "4">>), Text(<<"2", "0", "2", "5">>)}

KeyExtensions == Text(<<"e", "x", "t", "e", "n", "s", "i", "o", "n", "s">>)
KeyLastUpdated == Text(<<"l", "a", "s", "t", "U", "p", "d", "a", "t", "e", "d">>)
KeyVscodeVersion ==
    Text(<<"v", "s", "c", "o", "d", "e", "V", "e", "r", "s", "i", "o", "n">>)
KeyId == Text(<<"i", "d">>)
KeyName == Text(<<"n", "a", "m", "e">>)
KeyVersion == Text(<<"v", "e", "r", "s", "i", "o", "n">>)
KeyDescription ==
    Text(<<"d", "e", "s", "c", "r", "i", "p", "t", "i", "o", "n">>)

\* a variant that keeps the built-in extensions
KeepAll(ext) == TRUE

\* !ext.packageJSON.isBuiltin
NotBuiltin(ext) == ~ext.isBuiltin

\* the ExtensionInfo of an extension
InfoOf(ext) ==
    [id |-> ext.id,
     name |-> IF ext.displayName # <<>> /\ ext.displayName[1] # <<>>
              THEN ext.displayName[1] ELSE ext.name,
     version |-> ext.version,
     description |-> ext.description]

GetInstalledExtensions(all) ==
    LET kept == SelectSeq(all, NotBuiltin)
    IN  [i \in 1..Len(kept) |-> InfoOf(kept[i])]

\* the ExtensionInfo as JSON.stringify sees it: a property that is
\* undefined is left out
InfoValue(info) ==
    JObj(<< <<KeyId, JStr(info.id)>>, <<KeyName, JStr(info.name)>>,
            <<KeyVersion, JStr(info.version)>> >>
         \o (IF info.description = <<>> THEN <<>>
             ELSE << <<KeyDescription, JStr(info.description[1])>> >>))

\* data: ExtensionsData
SnapshotData(extensions, lastUpdated) ==
    JObj(<< <<KeyExtensions,
              JArr([i \in 1..Len(extensions) |-> InfoValue(extensions[i])])>>,
            <<KeyLastUpdated, JStr(lastUpdated)>>,
            <<KeyVscodeVersion, JStr(VscodeVersion)>> >>)

\* a string property of a parsed object: <<>> when undefined
StringOf(v, key) ==
    IF Get(v, key) # <<>> /\ Get(v, key)[1].t = "str"
    THEN <<Get(v, key)[1].v>> ELSE <<>>

\* the quick pick item of a parsed entry
ItemOf(ext) ==
    [label |-> StringOf(ext, KeyName),
     description |-> StringOf(ext, KeyId),
     detail |-> IF StringOf(ext, KeyDescription) = <<>> THEN <<>>
                ELSE StringOf(ext, KeyDescription)[1],
     id |-> StringOf(ext, KeyId)]

\* what showQuickPick (canPickMany) can resolve with: the picked items, as
\* positions in the list offered; <<>> also stands for a dismissed pick
Picks(items) ==
    {sel \in UNION {[1..n -> 1..Len(items)] : n \in 0..Len(items)} :
        \A i, j \in 1..Len(sel) : sel[i] = sel[j] => i = j}

Event(e, id, ok) == [e |-> e, id |-> id, ok |-> ok]

\* progress.report and executeCommand('workbench.extensions.installExtension')
\* for selected[i]
RequestInstall(o, i) ==
    [o EXCEPT !.pc = "install", !.i = i,
              !.events = @ \o <<Event("report", o.items[o.selected[i]].id, TRUE),
                                Event("request", o.items[o.selected[i]].id, TRUE)>>]

syncExtensionsStart ==
    /\ OpCanStart
    /\ \E lastUpdated \in Timestamps :
         LET extensions == GetInstalledExtensions(extensionsAll)
             content == JSONStringify(SnapshotData(extensions, lastUpdated))
         IN  /\ op' = [IdleOp EXCEPT !.kind = "syncExtensions", !.pc = "upsert",
                                     !.snapshot = extensions]
             /\ call' = [call EXCEPT !["upsert"] = NewCall(content, "")]
    /\ UNCHANGED <<remote, secretToken, secretUser, cfgRepository, lastWritten>>
    /\ UNCHANGED <<parse, change, localFiles, remoteEnv, extensionsAll>>
    /\ UNCHANGED authVars

\* createOrUpdateFile has ended; the command's notification
syncExtensionsEnd ==
    /\ op.kind = "syncExtensions"
    /\ op.pc = "upsert"
    /\ call["upsert"].pc = "done"
    /\ LET c == call["upsert"]
           o == [op EXCEPT !.calls = Append(@, CallSummary(c))]
       IN  op' = IF c.outcome = "ok" THEN CommandOk(o, MsgSynced)
                 ELSE CommandFailed(o, MsgSyncFailed, c.error)
    /\ call' = [call EXCEPT !["upsert"] = IdleCall]
    /\ UNCHANGED <<remote, secretToken, secretUser, cfgRepository, lastWritten>>
    /\ UNCHANGED <<parse, change, localFiles, remoteEnv, extensionsAll>>
    /\ UNCHANGED authVars

importExtensionsStart ==
    /\ OpCanStart
    /\ op' = [IdleOp EXCEPT !.kind = "importExtensions", !.pc = "fetch"]
    /\ call' = [call EXCEPT !["fetch"] = NewCall(<<>>, "")]
    /\ UNCHANGED <<remote, secretToken, secretUser, cfgRepository, lastWritten>>
    /\ UNCHANGED <<parse, change, localFiles, remoteEnv, extensionsAll>>
    /\ UNCHANGED authVars

\* getFileContent has ended: JSON.parse, the items, showQuickPick
importExtensionsFetched ==
    /\ op.kind = "importExtensions"
    /\ op.pc = "fetch"
    /\ call["fetch"].pc = "done"
    /\ LET c == call["fetch"]
           o == [op EXCEPT !.calls = Append(@, CallSummary(c))]
           data == JSONParse(c.value)
           extensions == Get(data.v, KeyExtensions)
       IN  op' = IF c.outcome # "ok"
                 THEN CommandFailed(o, MsgImportFailed, c.error)
                 ELSE IF ~data.ok
                 THEN CommandFailed(o, MsgImportFailed,
                                    PlainError(MsgSyntaxError, ""))
                 ELSE IF extensions = <<>> \/ extensions[1].t # "arr"
                 THEN CommandFailed(o, MsgImportFailed,
                                    PlainError(MsgTypeError, ""))
                 ELSE [o EXCEPT !.pc = "pick", !.expect = c.expect,
                                !.items = [k \in 1..Len(extensions[1].v) |->
                                             ItemOf(extensions[1].v[k])]]
    /\ call' = [call EXCEPT !["fetch"] = IdleCall]
    /\ UNCHANGED <<remote, secretToken, secretUser, cfgRepository, lastWritten>>
    /\ UNCHANGED <<parse, change, localFiles, remoteEnv, extensionsAll>>
    /\ UNCHANGED authVars

\* the answer to showQuickPick; with a selection, the first installation
\* is requested
importExtensionsPick ==
    /\ NoneDone
    /\ op.kind = "importExtensions"
    /\ op.pc = "pick"
    /\ \E selected \in Picks(op.items) :
         op' = IF selected = <<>> THEN CommandOk(op, MsgImported)
               ELSE RequestInstall([op EXCEPT !.selected = selected], 1)
    /\ UNCHANGED <<parse, change, localFiles, remoteEnv, extensionsAll>>
    /\ UNCHANGED <<secretToken, secretUser>>
    /\ UNCHANGED syncVars
    /\ UNCHANGED authVars

\* a variant that gives up at the first failed installation
AfterInstallAbort(o, ok) ==
    LET id == o.items[o.selected[o.i]].id
        settled == [o EXCEPT !.events = Append(@, Event("settled", id, ok))]
    IN  IF ~ok
        THEN CommandFailed(settled, MsgImportFailed, PlainError("install", ""))
        ELSE IF o.i < Len(o.selected) THEN RequestInstall(settled, o.i + 1)
        ELSE CommandOk(settled, MsgImported)

\* the installation of selected[i] has settled: a warning when it failed,
\* then the next one, or the end of the loop
AfterInstall(o, ok) ==
    LET id == o.items[o.selected[o.i]].id
        settled == [o EXCEPT !.events = Append(@, Event("settled", id, ok))]
        warned == IF ok THEN settled
                  ELSE [settled EXCEPT
                          !.events = Append(@, Event("warning", id, FALSE))]
    IN  IF o.i < Len(o.selected) THEN RequestInstall(warned, o.i + 1)
        ELSE CommandOk(warned, MsgImported)

importExtensionsInstall ==
    /\ NoneDone
    /\ op.kind = "importExtensions"
    /\ op.pc = "install"
    /\ \E ok \in BOOLEAN : op' = AfterInstall(op, ok)
    /\ UNCHANGED <<parse, change, localFiles, remoteEnv, extensionsAll>>
    /\ UNCHANGED <<secretToken, secretUser>>
    /\ UNCHANGED syncVars
    /\ UNCHANGED authVars

(***************************************************************************)
(* syncSettings and importSettings. localFiles["user"] is the file at      *)
(* getUserSettingsPath(); localFiles["machine"] is the file at the path    *)
(* getRemoteSettingsPath() looks at (under VSCODE_REMOTE_ENV when that is  *)
(* set, else under HOME/.vscode-server).                                   *)
(***************************************************************************)
SettingsName == "settings.json"

RemoteSettingsName == "remote-settings.json"

SettingsPaths == {SettingsName, RemoteSettingsName}

MsgSettingsSynced == "settings synced"
MsgSettingsSyncFailed == "settings sync failed"
MsgSettingsImported == "settings imported"
MsgSettingsImportFailed == "settings import failed"
MsgNoUserSettings == "user settings file not found"
MsgLocalWrite == "local write failed"

\* getRemoteSettingsPath(): <<>> when undefined
RemoteSettingsPath ==
    IF remoteEnv THEN <<"machine">>
    ELSE IF localFiles["machine"] # <<>> THEN <<"machine">>
    ELSE <<>>

\* fs.writeFileSync, which may throw
Write(name, content, ok) == [name |-> name, content |-> content, ok |-> ok]

WriteFile(files, w) ==
    IF w.ok THEN [files EXCEPT ![w.name] = <<w.content>>] ELSE files

syncSettingsStart ==
    /\ OpCanStart
    /\ LET o == [IdleOp EXCEPT !.kind = "syncSettings"]
       IN  IF localFiles["user"] = <<>>
           THEN /\ op' = CommandFailed(o, MsgSettingsSyncFailed,
                                       PlainError(MsgNoUserSettings, ""))
                /\ call' = call
           ELSE /\ op' = [o EXCEPT !.pc = "upsert1"]
                /\ call' = [call EXCEPT !["upsert"] =
                              NewCall(localFiles["user"][1], SettingsName)]
    /\ UNCHANGED <<remote, secretToken, secretUser, cfgRepository, lastWritten>>
    /\ UNCHANGED <<parse, change, localFiles, remoteEnv, extensionsAll>>
    /\ UNCHANGED authVars

\* a variant that goes on to the second upload after a failed first one
AfterFirstUploadUnchecked(o, c, due) ==
    IF due THEN [o EXCEPT !.pc = "upsert2"]
    ELSE CommandOk(o, MsgSettingsSynced)

\* after createOrUpdateFile(settingsContent, 'settings.json'); due: the
\* remote settings path is there and the file exists
AfterFirstUpload(o, c, due) ==
    IF c.outcome # "ok" THEN CommandFailed(o, MsgSettingsSyncFailed, c.error)
    ELSE IF due THEN [o EXCEPT !.pc = "upsert2"]
    ELSE CommandOk(o, MsgSettingsSynced)

syncSettingsFirst ==
    /\ op.kind = "syncSettings"
    /\ op.pc = "upsert1"
    /\ call["upsert"].pc = "done"
    /\ LET c == call["upsert"]
           o == [op EXCEPT !.calls = Append(@, CallSummary(c))]
           due == RemoteSettingsPath # <<>> /\ localFiles["machine"] # <<>>
           next == AfterFirstUpload(o, c, due)
       IN  /\ op' = next
           /\ call' = [call EXCEPT !["upsert"] =
                         IF next.pc = "upsert2"
                         THEN NewCall(localFiles["machine"][1], RemoteSettingsName)
                         ELSE IdleCall]
    /\ UNCHANGED <<remote, secretToken, secretUser, cfgRepository, lastWritten>>
    /\ UNCHANGED <<parse, change, localFiles, remoteEnv, extensionsAll>>
    /\ UNCHANGED authVars

\* after createOrUpdateFile(remoteContent, 'remote-settings.json')
syncSettingsSecond ==
    /\ op.kind = "syncSettings"
    /\ op.pc = "upsert2"
    /\ call["upsert"].pc = "done"
    /\ LET c == call["upsert"]
           o == [op EXCEPT !.calls = Append(@, CallSummary(c))]
       IN  op' = IF c.outcome = "ok" THEN CommandOk(o, MsgSettingsSynced)
                 ELSE CommandFailed(o, MsgSettingsSyncFailed, c.error)
    /\ call' = [call EXCEPT !["upsert"] = IdleCall]
    /\ UNCHANGED <<remote, secretToken, secretUser, cfgRepository, lastWritten>>
    /\ UNCHANGED <<parse, change, localFiles, remoteEnv, extensionsAll>>
    /\ UNCHANGED authVars

importSettingsStart ==
    /\ OpCanStart
    /\ op' = [IdleOp EXCEPT !.kind = "importSettings", !.pc = "fetch1"]
    /\ call' = [call EXCEPT !["fetch"] = NewCall(<<>>, SettingsName)]
    /\ UNCHANGED <<remote, secretToken, secretUser, cfgRepository, lastWritten>>
    /\ UNCHANGED <<parse, change, localFiles, remoteEnv, extensionsAll>>
    /\ UNCHANGED authVars

\* a variant that catches a failure of the first fetch and goes on
PrimaryAny(c) == TRUE

\* the await of getFileContent('settings.json') returned (it did not throw)
PrimaryFetched(c) == c.outcome = "ok"

\* after getFileContent('settings.json'): the local file is written and
\* the second fetch begins
importSettingsFirst ==
    /\ op.kind = "importSettings"
    /\ op.pc = "fetch1"
    /\ call["fetch"].pc = "done"
    /\ LET c == call["fetch"]
           o == [op EXCEPT !.calls = Append(@, CallSummary(c))]
       IN  IF ~PrimaryFetched(c)
           THEN /\ op' = CommandFailed(o, MsgSettingsImportFailed, c.error)
                /\ call' = [call EXCEPT !["fetch"] = IdleCall]
                /\ localFiles' = localFiles
           ELSE \E ok \in BOOLEAN :
                  LET w == Write("user", c.value, ok)
                      written == [o EXCEPT !.writes = Append(@, w)]
                  IN  /\ localFiles' = WriteFile(localFiles, w)
                      /\ op' = IF ok THEN [written EXCEPT !.pc = "fetch2"]
                               ELSE CommandFailed(written, MsgSettingsImportFailed,
                                                  PlainError(MsgLocalWrite, ""))
                      /\ call' = [call EXCEPT !["fetch"] =
                                    IF ok THEN NewCall(<<>>, RemoteSettingsName)
                                    ELSE IdleCall]
    /\ UNCHANGED <<remote, secretToken, secretUser, cfgRepository, lastWritten>>
    /\ UNCHANGED <<parse, change, remoteEnv, extensionsAll>>
    /\ UNCHANGED authVars

\* a variant that writes whatever the second fetch ended with
SecondaryAny(c) == TRUE

\* the try block goes on after getFileContent('remote-settings.json')
SecondaryFetched(c) == c.outcome = "ok"

\* after getFileContent('remote-settings.json'): the local file is written
\* when there is a path for it; whatever is thrown is ignored
importSettingsSecond ==
    /\ op.kind = "importSettings"
    /\ op.pc = "fetch2"
    /\ call["fetch"].pc = "done"
    /\ LET c == call["fetch"]
           o == [op EXCEPT !.calls = Append(@, CallSummary(c))]
       IN  IF SecondaryFetched(c) /\ RemoteSettingsPath # <<>>
           THEN \E ok \in BOOLEAN :
                  LET w == Write(RemoteSettingsPath[1], c.value, ok)
                  IN  /\ localFiles' = WriteFile(localFiles, w)
                      /\ op' = CommandOk([o EXCEPT !.writes = Append(@, w)],
                                         MsgSettingsImported)
           ELSE /\ localFiles' = localFiles
                /\ op' = CommandOk(o, MsgSettingsImported)
    /\ call' = [call EXCEPT !["fetch"] = IdleCall]
    /\ UNCHANGED <<remote, secretToken, secretUser, cfgRepository, lastWritten>>
    /\ UNCHANGED <<parse, change, remoteEnv, extensionsAll>>
    /\ UNCHANGED authVars

vars == <<remote, secretToken, secretUser, cfgRepository, call, lastWritten,
         cfgClientId, cfgClientSecret, authConfig, login, logout, check,
         parse, change, op, localFiles, remoteEnv, extensionsAll>>

\* no command has been invoked; nothing is known of the host
InitCmdIdle ==
    /\ parse = IdleParse
    /\ change = IdleChange
    /\ op = IdleOp
    /\ localFiles = [n \in LocalNames |-> <<>>]
    /\ remoteEnv = FALSE
    /\ extensionsAll = <<>>

InitSync ==
    /\ remote = [f \in Paths |-> Absent]
    /\ secretToken \in {"", "t1"}
    /\ secretUser = (IF secretToken = "" THEN "" ELSE UserOf(secretToken))
    /\ cfgRepository \in RepoInputs
    /\ call = [p \in Procs |-> IdleCall]
    /\ lastWritten = [f \in Paths |-> <<>>]
    /\ cfgClientId = "id"
    /\ cfgClientSecret = "secret"
    /\ authConfig = [clientId |-> cfgClientId, clientSecret |-> cfgClientSecret]
    /\ login = IdleLogin
    /\ logout = IdleLogout
    /\ check = IdleCheck
    /\ InitCmdIdle

NextSync ==
    \/ \E p \in Procs : Start(p)
    \/ \E p \in Procs : GetGitHubToken(p)
    \/ \E p \in Procs : RepositoryPrompt(p)
    \/ \E p \in Procs : RepositorySave(p)
    \/ UpsertGet1
    \/ UpsertGet2
    \/ UpsertPut
    \/ UpsertCreate
    \/ FetchGet
    \/ \E p \in Procs : Return(p)
    \/ ExternalWrite
    \/ ExternalDelete

SpecSync == InitSync /\ [][NextSync]_vars

\* the credential flow alone: the extension has just been activated, with
\* or without a stored credential and with or without a configured OAuth app
InitAuth ==
    /\ remote = [f \in Paths |-> Absent]
    /\ cfgRepository = RepoValid
    /\ call = [p \in Procs |-> IdleCall]
    /\ lastWritten = [f \in Paths |-> <<>>]
    /\ secretToken \in {"", "t1"}
    /\ secretUser = (IF secretToken = "" THEN "" ELSE UserOf(secretToken))
    /\ cfgClientId \in {"", "id"}
    /\ cfgClientSecret \in {"", "secret"}
    /\ authConfig = [clientId |-> cfgClientId, clientSecret |-> cfgClientSecret]
    /\ login = IdleLogin
    /\ logout = IdleLogout
    /\ check = IdleCheck
    /\ InitCmdIdle

NextAuth ==
    \/ LoginStart
    \/ LoginClientId
    \/ LoginClientSecret
    \/ LoginSaveId
    \/ LoginSaveSecret
    \/ LoginBrowser
    \/ LoginCode
    \/ LoginExchange
    \/ LoginIdentity
    \/ LoginStoreToken
    \/ LoginStoreUser
    \/ LoginReturn
    \/ LogoutStart
    \/ LogoutDeleteToken
    \/ LogoutDeleteUser
    \/ LogoutReturn
    \/ IsLoggedInStart
    \/ IsLoggedInRead
    \/ IsLoggedInLookup
    \/ IsLoggedInReturn

SpecAuth == InitAuth /\ [][NextAuth]_vars

\* the format check alone, on every non-empty repository string up to the
\* bound (getRepository never returns the empty string)
InitParse ==
    /\ remote = [f \in Paths |-> Absent]
    /\ secretToken = "t1"
    /\ secretUser = UserOf(secretToken)
    /\ cfgRepository = RepoValid
    /\ call = [p \in Procs |-> IdleCall]
    /\ lastWritten = [f \in Paths |-> <<>>]
    /\ cfgClientId = "id"
    /\ cfgClientSecret = "secret"
    /\ authConfig = [clientId |-> cfgClientId, clientSecret |-> cfgClientSecret]
    /\ login = IdleLogin
    /\ logout = IdleLogout
    /\ check = IdleCheck
    /\ parse \in {[IdleParse EXCEPT !.repository = s] : s \in RepoStrings \ {<<>>}}
    /\ change = IdleChange
    /\ op = IdleOp
    /\ localFiles = [n \in LocalNames |-> <<>>]
    /\ remoteEnv = FALSE
    /\ extensionsAll = <<>>

NextParse ==
    \/ \E p \in Procs : ParseRepository(p)
    \/ ParseReturn

SpecParse == InitParse /\ [][NextParse]_vars

\* the repository configuration under concurrent commands: a logged-in
\* user, the repository configured or not
InitRepo ==
    /\ remote = [f \in Paths |-> Absent]
    /\ secretToken = "t1"
    /\ secretUser = UserOf(secretToken)
    /\ cfgRepository \in RepoInputs
    /\ call = [p \in Procs |-> IdleCall]
    /\ lastWritten = [f \in Paths |-> <<>>]
    /\ cfgClientId = "id"
    /\ cfgClientSecret = "secret"
    /\ authConfig = [clientId |-> cfgClientId, clientSecret |-> cfgClientSecret]
    /\ login = IdleLogin
    /\ logout = IdleLogout
    /\ check = IdleCheck
    /\ InitCmdIdle

NextRepo ==
    \/ \E p \in Procs : StartConcurrent(p)
    \/ \E p \in Procs : GetGitHubToken(p)
    \/ \E p \in Procs : RepositoryPrompt(p)
    \/ \E p \in Procs : RepositorySave(p)
    \/ UpsertGet1
    \/ UpsertGet2
    \/ UpsertPut
    \/ UpsertCreate
    \/ FetchGet
    \/ \E p \in Procs : Return(p)
    \/ ChangeRepositoryStart
    \/ ChangeRepositoryPrompt
    \/ ChangeRepositorySave
    \/ ChangeRepositoryReturn

SpecRepo == InitRepo /\ [][NextRepo]_vars

\* the extension commands: a logged-in user, any list of extensions, the
\* snapshot file absent; other writers may write or delete it
InitExt ==
    /\ remote = [f \in {cfgFileName} |-> Absent]
    /\ secretToken = "t1"
    /\ secretUser = UserOf(secretToken)
    /\ cfgRepository = RepoValid
    /\ call = [p \in Procs |-> IdleCall]
    /\ lastWritten = [f \in {cfgFileName} |-> <<>>]
    /\ cfgClientId = "id"
    /\ cfgClientSecret = "secret"
    /\ authConfig = [clientId |-> cfgClientId, clientSecret |-> cfgClientSecret]
    /\ login = IdleLogin
    /\ logout = IdleLogout
    /\ check = IdleCheck
    /\ parse = IdleParse
    /\ change = IdleChange
    /\ op = IdleOp
    /\ localFiles = [n \in LocalNames |-> <<>>]
    /\ remoteEnv = FALSE
    /\ extensionsAll \in ExtensionLists

NextExt ==
    \/ syncExtensionsStart
    \/ syncExtensionsEnd
    \/ importExtensionsStart
    \/ importExtensionsFetched
    \/ importExtensionsPick
    \/ importExtensionsInstall
    \/ OpReturn
    \/ \E p \in Procs : GetGitHubToken(p)
    \/ UpsertGet1
    \/ UpsertGet2
    \/ UpsertPut
    \/ UpsertCreate
    \/ FetchGet
    \/ ExternalWrite
    \/ ExternalDelete

SpecExt == InitExt /\ [][NextExt]_vars

\* the contents tried for the settings files: those of the greatest length
SettingsContents == {c \in Contents : Len(c) = MaxLen}

\* what the machine settings file holds at first, where it exists
MachineContent == [k \in 1..MaxLen |-> 97]

\* somebody else writes one of the settings files of the repository
ExternalSettingsWrite ==
    /\ NoneDone
    /\ \E f \in DOMAIN remote, content \in SettingsContents :
         /\ remote[f] # File(Utf8Encode(content))
         /\ remote' = [remote EXCEPT ![f] = File(Utf8Encode(content))]
         /\ lastWritten' = [lastWritten EXCEPT ![f] = <<>>]
    /\ UNCHANGED <<secretToken, secretUser, cfgRepository, call>>
    /\ UNCHANGED authVars
    /\ UNCHANGED cmdVars

\* the settings commands: a logged-in user; the user settings file and the
\* machine settings file there or not; the two remote files absent; other
\* writers may write or delete them
InitSettings ==
    /\ remote = [f \in SettingsPaths |-> Absent]
    /\ secretToken = "t1"
    /\ secretUser = UserOf(secretToken)
    /\ cfgRepository = RepoValid
    /\ call = [p \in Procs |-> IdleCall]
    /\ lastWritten = [f \in SettingsPaths |-> <<>>]
    /\ cfgClientId = "id"
    /\ cfgClientSecret = "secret"
    /\ authConfig = [clientId |-> cfgClientId, clientSecret |-> cfgClientSecret]
    /\ login = IdleLogin
    /\ logout = IdleLogout
    /\ check = IdleCheck
    /\ parse = IdleParse
    /\ change = IdleChange
    /\ op = IdleOp
    /\ localFiles \in {[user |-> u, machine |-> m] :
                          u \in {<<>>} \cup {<<c>> : c \in SettingsContents},
                          m \in {<<>>, <<MachineContent>>}}
    /\ remoteEnv \in BOOLEAN
    /\ extensionsAll = <<>>

NextSettings ==
    \/ syncSettingsStart
    \/ syncSettingsFirst
    \/ syncSettingsSecond
    \/ importSettingsStart
    \/ importSettingsFirst
    \/ importSettingsSecond
    \/ OpReturn
    \/ \E p \in Procs : GetGitHubToken(p)
    \/ UpsertGet1
    \/ UpsertGet2
    \/ UpsertPut
    \/ UpsertCreate
    \/ FetchGet
    \/ ExternalSettingsWrite
    \/ ExternalDelete

SpecSettings == InitSettings /\ [][NextSettings]_vars

(***************************************************************************)
(* Properties of createOrUpdateFile and getFileContent (SpecSync).         *)
(***************************************************************************)
UpLog == call["upsert"].log

FtLog == call["fetch"].log

IsPut(i) == UpLog[i].op = "PUT"

\* C1: every write an upsert issues follows an answer of the store to the
\* same call, and its revision token goes by that answer: when the answer
\* was not-found (the path did not exist) the write carries no sha; when it
\* was a successful read (the path existed) the write carries exactly the
\* sha that this immediately preceding read returned.
UpsertShaDiscipline ==
    \A i \in 1..Len(UpLog) :
        IsPut(i) =>
            /\ i > 1
            /\ IF UpLog[i - 1].status = StatusNotFound
               THEN /\ ~UpLog[i - 1].existed
                    /\ UpLog[i].sha = <<>>
               ELSE /\ UpLog[i - 1].op = "GET"
                    /\ Success(UpLog[i - 1].status)
                    /\ UpLog[i - 1].existed
                    /\ UpLog[i].sha # <<>>
                    /\ UpLog[i].sha = UpLog[i - 1].respSha

\* C1 witness: an upsert of an existing path has been accepted by the store
\* with the sha of the second read, and that sha was not the one the first
\* read had seen
UpsertShaWitness ==
    /\ call["upsert"].pc = "done"
    /\ call["upsert"].outcome = "ok"
    /\ Len(UpLog) = 3
    /\ UpLog[3].sha = UpLog[2].respSha
    /\ UpLog[1].respSha # UpLog[2].respSha

\* C2 (as claimed): a create is issued only after the initial read reported
\* not-found; a failure of a later request is propagated unchanged with no
\* further write; an upsert issues at most one write.
UpsertCreateOnlyAfterInitialNotFound ==
    /\ \A i \in 1..Len(UpLog) :
          (IsPut(i) /\ UpLog[i].sha = <<>>) =>
              (i = 2 /\ UpLog[1].status = StatusNotFound)
    /\ Cardinality({i \in 1..Len(UpLog) : IsPut(i)}) <= 1
    /\ \A i \in 2..Len(UpLog) :
          ~Success(UpLog[i].status) =>
              /\ i = Len(UpLog)
              /\ call["upsert"].pc = "done"
              /\ call["upsert"].error = AxiosError(UpLog[i].status, i)

\* C3: an update write that finds the file changed since the read whose sha
\* it carries (the file's sha is no longer that one) is refused by the
\* store, leaves the file as the other writer left it, and is the last
\* request of the call: the call ends with that refusal as its error.
StaleUpdateRejectedNoRetry ==
    \A i \in 1..Len(UpLog) :
        (IsPut(i) /\ UpLog[i].stale) =>
            /\ ~Success(UpLog[i].status)
            /\ ~UpLog[i].changed
            /\ i = Len(UpLog)
            /\ call["upsert"].pc = "done"
            /\ call["upsert"].outcome = "error"
            /\ call["upsert"].error = AxiosError(UpLog[i].status, i)

\* C3 witness: an update was refused with the conflict answer
StaleUpdateWitness ==
    /\ call["upsert"].pc = "done"
    /\ Len(UpLog) = 3
    /\ UpLog[3].stale
    /\ UpLog[3].status = StatusConflict
    /\ call["upsert"].error = AxiosError(StatusConflict, 3)

\* C4: a fetch served while the path still holds what the last successful
\* upsert wrote returns exactly the content handed to that upsert (or fails
\* with the store's own failure; never with not-found).
UpsertFetchRoundTrip ==
    (call["fetch"].pc = "done" /\ call["fetch"].expect # <<>>) =>
        \/ /\ call["fetch"].outcome = "ok"
           /\ call["fetch"].value = call["fetch"].expect[1]
        \/ /\ call["fetch"].outcome = "error"
           /\ call["fetch"].error = AxiosError(StatusOther, 1)

\* C4 witness: a fetch returned the euro sign an upsert had written
UpsertFetchWitness ==
    /\ call["fetch"].pc = "done"
    /\ call["fetch"].outcome = "ok"
    /\ call["fetch"].expect = <<(<<8364>>)>>
    /\ call["fetch"].value = <<8364>>

\* C5: a fetch whose read is answered not-found throws the not-found error
\* naming the requested file; a fetch of an absent path never succeeds; any
\* other failure of the read is thrown unchanged.
FetchNotFoundDistinguished ==
    (call["fetch"].pc = "done" /\ Len(FtLog) = 1) =>
        /\ ~FtLog[1].existed => call["fetch"].outcome = "error"
        /\ FtLog[1].status = StatusNotFound =>
              /\ call["fetch"].outcome = "error"
              /\ call["fetch"].error
                   = PlainError(MsgNotFoundSyncFirst, call["fetch"].targetFile)
        /\ (~Success(FtLog[1].status) /\ FtLog[1].status # StatusNotFound) =>
              /\ call["fetch"].outcome = "error"
              /\ call["fetch"].error = AxiosError(FtLog[1].status, 1)

\* C5 witness: fetching the absent settings.json failed with the not-found
\* error naming settings.json
FetchNotFoundWitness ==
    /\ call["fetch"].pc = "done"
    /\ call["fetch"].targetFile = "settings.json"
    /\ Len(FtLog) = 1
    /\ ~FtLog[1].existed
    /\ call["fetch"].error = PlainError(MsgNotFoundSyncFirst, "settings.json")

\* C13: while no credential is stored, no upsert and no fetch gets past
\* the credential lookup: none is at the repository prompt or at the
\* configuration update, none has had a prompt answered, none has issued a
\* request, and each one that has ended has failed with the error telling
\* the user to log in.
LoginRequiredFirst ==
    secretToken = "" =>
        \A p \in Procs :
            /\ call[p].pc \in {"idle", "token", "done"}
            /\ call[p].input = <<>>
            /\ call[p].log = <<>>
            /\ call[p].pc = "done" =>
                  /\ call[p].outcome = "error"
                  /\ call[p].error = PlainError(MsgLoginRequired, "")

\* C13 witness: with no credential and no repository configured, a fetch
\* has failed with the login error
LoginRequiredWitness ==
    /\ secretToken = ""
    /\ cfgRepository = <<>>
    /\ call["fetch"].pc = "done"
    /\ call["fetch"].error = PlainError(MsgLoginRequired, "")

(***************************************************************************)
(* Properties of login, logout and isLoggedIn (SpecAuth).                  *)
(***************************************************************************)
LoginSuccessSteps ==
    <<Step("browser", TRUE), Step("code", TRUE), Step("exchange", TRUE),
      Step("identity", TRUE), Step("storeToken", TRUE), Step("storeUser", TRUE)>>

\* C6: a login that reports success has, in this order and each once,
\* taken the authorization code, exchanged it for a token, looked up the
\* identity of that token and stored the token and the identity, and has
\* notified the user with that identity; no invocation attempts a step twice.
LoginSuccessOrder ==
    /\ \A i, j \in 1..Len(login.steps) :
          login.steps[i].step = login.steps[j].step => i = j
    /\ login.result = "true" =>
          /\ login.steps = LoginSuccessSteps
          /\ login.token \in Tokens
          /\ login.user = UserOf(login.token)
          /\ login.notes = <<Note("info", "logged in", login.user)>>
          /\ secretUser = login.user
          /\ ~login.interfered => secretToken = login.token

\* C6 witness: a login has reported success
LoginSuccessWitness ==
    /\ login.pc = "done"
    /\ login.result = "true"
    /\ secretToken = login.token

\* C7 (as claimed): a login that returns false leaves the two stored
\* entries as they were when it began (no logout having touched them
\* meanwhile).
LoginAbortLeavesStoreUntouched ==
    (login.pc = "done" /\ login.result = "false" /\ ~login.interfered) =>
        <<secretToken, secretUser>> = login.before

\* C8 (as claimed): whenever neither a login nor a logout is under way, the
\* token is stored if and only if the identity is stored.
CredentialPairAtRest ==
    (login.pc \in {"idle", "done"} /\ logout.pc \in {"idle", "done"}) =>
        (secretToken = "" <=> secretUser = "")

\* C9 (as claimed): every logout reports success, never an error, and
\* leaves no token stored.
LogoutAlwaysSucceeds ==
    logout.pc = "done" =>
        /\ logout.notes = <<Note("info", "logged out", "")>>
        /\ secretToken = ""

\* C9 (amended): every logout shows exactly one notification; it is the
\* success notification exactly when both deletions completed, whether or
\* not a credential was stored, and then no token is stored unless a login
\* stored one after the deletion; it is the error notification exactly when
\* a deletion failed.
LogoutReportsDeletion ==
    logout.pc = "done" =>
        /\ Len(logout.notes) = 1
        /\ logout.notes[1].kind = "info" <=>
              logout.steps = <<Step("delToken", TRUE), Step("delUser", TRUE)>>
        /\ logout.notes[1].kind = "error" <=>
              \E i \in 1..Len(logout.steps) : ~logout.steps[i].ok
        /\ (logout.notes[1].kind = "info" /\ ~logout.relogged) =>
              secretToken = ""

\* C9 witness: a logout with nothing stored has reported success
LogoutNeverLoggedInWitness ==
    /\ logout.pc = "done"
    /\ ~logout.hadToken
    /\ logout.notes = <<Note("info", "logged out", "")>>
    /\ secretToken = ""

\* C10: isLoggedIn never throws; it answers false when no token is stored
\* or the store cannot be read, without any lookup; otherwise it makes one
\* identity lookup with the stored token and answers true exactly when that
\* lookup succeeds.
IsLoggedInNeverThrows ==
    check.pc = "done" =>
        /\ ~check.threw
        /\ check.result \in {"true", "false"}
        /\ Len(check.lookups) <= 1
        /\ (check.stored = "" \/ ~check.readOk) =>
              (check.result = "false" /\ check.lookups = <<>>)
        /\ check.result = "true" <=>
              /\ Len(check.lookups) = 1
              /\ check.lookups[1].ok
              /\ check.lookups[1].token = check.stored
              /\ check.stored # ""

\* C10 witness: the lookup with the stored token failed and isLoggedIn
\* answered false
IsLoggedInLookupFailedWitness ==
    /\ check.pc = "done"
    /\ check.result = "false"
    /\ Len(check.lookups) = 1
    /\ ~check.lookups[1].ok
    /\ check.lookups[1].token = check.stored

(***************************************************************************)
(* Properties of the repository format check (SpecParse).                  *)
(***************************************************************************)
SlashCount(s) == Cardinality({i \in 1..Len(s) : s[i] = "/"})

\* C11 (as claimed): the format check accepts a string exactly when it has
\* one "/" with a non-empty owner before it and a non-empty repoName after
\* it, and then yields those two parts; every other string fails with the
\* format error.
RepositoryParseExact ==
    parse.pc = "done" =>
        LET s == parse.repository
        IN  IF SlashCount(s) = 1 /\ s[1] # "/" /\ s[Len(s)] # "/"
            THEN /\ parse.outcome = "ok"
                 /\ parse.owner \o <<"/">> \o parse.repo = s
            ELSE /\ parse.outcome = "error"
                 /\ parse.error = PlainError(MsgRepoFormat, "")

(***************************************************************************)
(* Properties of the repository configuration (SpecRepo).                  *)
(***************************************************************************)
\* C12 (as claimed): once the repository configuration is non-empty, every
\* step that changes it is the changeRepository command's update; no sync
\* or import operation changes it, however the commands interleave.
RepositoryKeptBySyncAndImport ==
    [][(cfgRepository # <<>> /\ cfgRepository' # cfgRepository)
          => ChangeRepositorySave]_vars

(***************************************************************************)
(* Properties of syncExtensions and importExtensions (SpecExt).            *)
(***************************************************************************)
IsRequest(e) == e.e = "request"

IsFailure(e) == e.e = "settled" /\ ~e.ok

IsWarning(e) == e.e = "warning"

\* C14: in importExtensions the installations requested so far are those of
\* the first entries of the selection, in selection order, each once; a
\* request is followed at once by its own settling (one at a time), a
\* failed installation at once by its warning, and there is no other
\* warning; when the command has ended after a non-empty selection, every
\* selected entry has been requested and the command has reported success.
InstallEachSelectedOnce ==
    op.kind = "importExtensions" =>
        LET requests == SelectSeq(op.events, IsRequest)
            last == Len(op.events)
        IN  /\ Len(requests) <= Len(op.selected)
            /\ \A k \in 1..Len(requests) :
                  requests[k].id = op.items[op.selected[k]].id
            /\ \A i \in 1..last :
                  /\ (IsRequest(op.events[i]) /\ i < last) =>
                        /\ op.events[i + 1].e = "settled"
                        /\ op.events[i + 1].id = op.events[i].id
                  /\ (IsRequest(op.events[i]) /\ i = last) => op.pc = "install"
                  /\ IsFailure(op.events[i]) =>
                        /\ i < last
                        /\ op.events[i + 1] = Event("warning", op.events[i].id, FALSE)
                  /\ IsWarning(op.events[i]) => IsFailure(op.events[i - 1])
            /\ (op.pc = "done" /\ op.selected # <<>>) =>
                  /\ Len(requests) = Len(op.selected)
                  /\ op.notes = <<OpNote("info", MsgImported, NoError)>>

\* C14 witness: the second entry offered was selected first; its
\* installation failed, the other one was then requested, and the command
\* has reported success
InstallAfterFailureWitness ==
    /\ op.kind = "importExtensions"
    /\ op.pc = "done"
    /\ op.selected = <<2, 1>>
    /\ Len(SelectSeq(op.events, IsRequest)) = 2
    /\ Len(SelectSeq(op.events, IsWarning)) = 1
    /\ op.events[3] = Event("settled", op.items[2].id, FALSE)
    /\ op.notes = <<OpNote("info", MsgImported, NoError)>>

\* the entry an extension makes in the snapshot, and the item offered for it
ShownName(ext) ==
    IF ext.displayName \notin {<<>>, <<(<<>>)>>} THEN ext.displayName[1]
    ELSE ext.name

EntryMatches(entry, ext) ==
    /\ StringOf(entry, KeyId) = <<ext.id>>
    /\ StringOf(entry, KeyName) = <<ShownName(ext)>>
    /\ StringOf(entry, KeyVersion) = <<ext.version>>
    /\ StringOf(entry, KeyDescription) = ext.description

ItemMatches(item, ext) ==
    /\ item.label = <<ShownName(ext)>>
    /\ item.description = <<ext.id>>
    /\ item.id = <<ext.id>>
    /\ item.detail = (IF ext.description = <<>> THEN <<>> ELSE ext.description[1])

NonBuiltin == SelectSeq(extensionsAll, LAMBDA ext : ~ext.isBuiltin)

\* C18: when the upsert of syncExtensions has succeeded, the file exists
\* and is a JSON object whose extensions field lists exactly the
\* non-built-in extensions, one entry each, in enumeration order, with
\* lastUpdated and the host version set; and when importExtensions has
\* fetched the file as the last successful sync left it, the items it
\* offers are exactly those entries, in that order.
SnapshotListsInstalled ==
    /\ (op.kind = "syncExtensions" /\ call["upsert"].pc = "done"
          /\ call["upsert"].outcome = "ok") =>
          /\ remote[cfgFileName] # Absent
          /\ LET data == JSONParse(Utf8Decode(remote[cfgFileName][1]))
                 entries == Get(data.v, KeyExtensions)
             IN  /\ data.ok
                 /\ entries # <<>>
                 /\ entries[1].t = "arr"
                 /\ Len(entries[1].v) = Len(NonBuiltin)
                 /\ \A k \in 1..Len(NonBuiltin) :
                       EntryMatches(entries[1].v[k], NonBuiltin[k])
                 /\ StringOf(data.v, KeyLastUpdated) \in {<<t>> : t \in Timestamps}
                 /\ StringOf(data.v, KeyVscodeVersion) = <<VscodeVersion>>
    /\ (op.kind = "importExtensions" /\ op.pc \in {"pick", "install"}
          /\ op.expect # <<>>) =>
          /\ Len(op.items) = Len(NonBuiltin)
          /\ \A k \in 1..Len(NonBuiltin) : ItemMatches(op.items[k], NonBuiltin[k])

\* C18 witness: a sync has created the file with two entries, and an
\* import now offers those two, the built-in extension between them left out
SnapshotOfferedWitness ==
    /\ extensionsAll = <<ExtBare, ExtBuiltin>>
    /\ op.kind = "importExtensions"
    /\ op.pc = "pick"
    /\ op.expect # <<>>
    /\ Len(op.items) = 1
    /\ op.items[1].label = <<(<<113, Quote>>)>>

(***************************************************************************)
(* Properties of syncSettings and importSettings (SpecSettings).           *)
(***************************************************************************)
\* the file the call now under way is for ("" when there is none)
CallFile(p) == IF call[p].pc = "idle" THEN "" ELSE call[p].targetFile

\* C15: a syncSettings without a local settings file fails with no call
\* made; otherwise its first call is the upsert of settings.json, its second
\* (and last) the upsert of remote-settings.json, made only after the first
\* succeeded and only when the local machine settings file exists, and made
\* whenever both are so; once the first has ended no call of the command is
\* for settings.json again; and when the second fails the command fails
\* while settings.json still holds the uploaded content unless somebody
\* else has written it since.
SettingsUploadOrder ==
    op.kind = "syncSettings" =>
        /\ localFiles["user"] = <<>> =>
              /\ op.pc = "done"
              /\ op.calls = <<>>
              /\ call["upsert"].pc = "idle"
              /\ op.notes = <<OpNote("error", MsgSettingsSyncFailed,
                                     PlainError(MsgNoUserSettings, ""))>>
        /\ localFiles["user"] # <<>> =>
              /\ Len(op.calls) <= 2
              /\ CallFile("upsert") \in
                    {"", IF op.calls = <<>> THEN SettingsName
                         ELSE RemoteSettingsName}
              /\ Len(op.calls) >= 1 => op.calls[1].file = SettingsName
              /\ (Len(op.calls) = 2 \/ op.pc = "upsert2") =>
                    /\ op.calls[1].outcome = "ok"
                    /\ localFiles["machine"] # <<>>
              /\ Len(op.calls) = 2 =>
                    /\ op.calls[2].file = RemoteSettingsName
                    /\ op.pc = "done"
                    /\ op.calls[2].outcome # "ok" =>
                          /\ op.notes = <<OpNote("error", MsgSettingsSyncFailed,
                                                 op.calls[2].error)>>
                          /\ lastWritten[SettingsName] # <<>> =>
                                remote[SettingsName]
                                  = File(Utf8Encode(localFiles["user"][1]))
              /\ (op.pc = "done" /\ Len(op.calls) = 1
                    /\ op.calls[1].outcome = "ok") =>
                    localFiles["machine"] = <<>>
              /\ op.pc = "done" => Len(op.calls) >= 1

\* C15 witness: the second upload has failed and the command with it;
\* settings.json holds the uploaded euro sign
SecondUploadFailedWitness ==
    /\ op.kind = "syncSettings"
    /\ op.pc = "done"
    /\ Len(op.calls) = 2
    /\ op.calls[2].outcome = "error"
    /\ localFiles["user"] = <<(<<8364>>)>>
    /\ remote[SettingsName] = File(Utf8Encode(<<8364>>))
    /\ lastWritten[SettingsName] # <<>>

IsMachineWrite(w) == w.name = "machine"

\* C16: in importSettings, once the primary fetch has succeeded the first
\* local write is that of the user settings file, with exactly the content
\* the store held for settings.json, and the file then holds it (unless the
\* write itself failed, which fails the command); a secondary fetch that
\* finds remote-settings.json absent ends the command with success and with
\* no write to the machine settings file; and the machine settings file is
\* written at most once, only after a successful secondary fetch, with the
\* content the store held, and only when there is a path for it.
SettingsImportWrites ==
    op.kind = "importSettings" =>
        /\ (Len(op.calls) >= 1 /\ op.calls[1].outcome = "ok") =>
              /\ op.calls[1].file = SettingsName
              /\ Len(op.writes) >= 1
              /\ op.writes[1].name = "user"
              /\ <<Utf8Encode(op.writes[1].content)>> = op.calls[1].served
              /\ op.writes[1].ok => localFiles["user"] = <<op.writes[1].content>>
              /\ op.writes[1].ok <=> (Len(op.calls) = 2 \/ op.pc = "fetch2")
        /\ (Len(op.calls) >= 1 /\ op.calls[1].outcome # "ok") => op.writes = <<>>
        /\ (Len(op.calls) = 2 /\ op.calls[2].absent /\ op.calls[2].asked) =>
              /\ op.calls[2].file = RemoteSettingsName
              /\ op.pc = "done"
              /\ op.notes = <<OpNote("info", MsgSettingsImported, NoError)>>
              /\ Len(op.writes) = 1
        /\ Len(SelectSeq(op.writes, IsMachineWrite)) <= 1
        /\ \A k \in 1..Len(op.writes) :
              IsMachineWrite(op.writes[k]) =>
                  /\ k = 2
                  /\ Len(op.calls) = 2
                  /\ op.calls[2].outcome = "ok"
                  /\ <<Utf8Encode(op.writes[k].content)>> = op.calls[2].served
                  /\ remoteEnv \/ localFiles["machine"] # <<>>
                  /\ op.writes[k].ok => localFiles["machine"] = <<op.writes[k].content>>

\* C16 witness: the store held the euro sign for settings.json and nothing
\* for remote-settings.json; the import has overwritten the user settings
\* file, which held something else, and has ended with success, although a
\* path for the machine settings file was there
SecondaryAbsentWitness ==
    /\ op.kind = "importSettings"
    /\ op.pc = "done"
    /\ Len(op.calls) = 2
    /\ op.calls[1].served = <<Utf8Encode(<<8364>>)>>
    /\ op.calls[2].asked
    /\ op.calls[2].absent
    /\ remoteEnv
    /\ localFiles["user"] = <<(<<8364>>)>>
    /\ op.writes = <<Write("user", <<8364>>, TRUE)>>
    /\ op.notes = <<OpNote("info", MsgSettingsImported, NoError)>>

(***************************************************************************)
(* Properties of the commands as the user sees them.                       *)
(***************************************************************************)
\* C17: a command that has run to completion has shown a notification:
\* change-repository, login and logout at least one, and each of the four
\* sync and import commands exactly one, either the success notification or
\* an error notification that carries the error thrown.
CommandsAlwaysNotify ==
    /\ change.pc = "done" => change.notes # <<>>
    /\ login.pc = "done" => login.notes # <<>>
    /\ logout.pc = "done" => logout.notes # <<>>
    /\ op.pc = "done" =>
          /\ Len(op.notes) = 1
          /\ op.notes[1].kind \in {"info", "error"}
          /\ op.notes[1].kind = "error" <=> op.notes[1].error # NoError

HasBrowserStep(l) == \E k \in 1..Len(l.steps) : l.steps[k].step = "browser"

\* C19: once both values have been supplied at the prompts of a login and
\* the two updates have completed, the configuration holds them and the
\* login goes on to open the browser; a login that has ended at a cancelled
\* prompt has returned false and has not opened the browser.
SetupContinuesToBrowser ==
    /\ (login.clientSecret # "" /\ login.pc \notin {"saveId", "saveSecret"}) =>
          /\ cfgClientId = login.clientId
          /\ cfgClientSecret = login.clientSecret
          /\ login.pc = "browser" \/ HasBrowserStep(login)
    /\ (login.pc = "done" /\ ConfigMissing(authConfig)
          /\ login.clientSecret = "") =>
          /\ login.result = "false"
          /\ ~HasBrowserStep(login)

\* C20: when openExternal has settled, in whatever way, the login is at the
\* prompt for the authorization code or has been there.
BrowserFailureNeverAborts ==
    \A k \in 1..Len(login.steps) :
        login.steps[k].step = "browser" =>
            \/ k = Len(login.steps) /\ login.pc = "code"
            \/ k < Len(login.steps) /\ login.steps[k + 1].step = "code"

(***************************************************************************)
(* Properties of failed calls: what they leave behind.                     *)
(***************************************************************************)
\* C21: a call that has failed with the repository format error has issued
\* no request and has left the repository configuration as it found it: if
\* the string was entered at the prompt of this call, the configuration was
\* empty before the call and is empty still.
FormatErrorLeavesConfig ==
    \A p \in Procs :
        (call[p].pc = "done" /\ call[p].error = PlainError(MsgRepoFormat, "")) =>
            /\ call[p].log = <<>>
            /\ call[p].input # <<>> => cfgRepository = <<>>

\* C22: an importSettings whose fetch of settings.json has failed has ended
\* with that failure as its one notification, has written no local file,
\* and has made no second call: none is recorded and none is under way.
PrimaryFailureWritesNothing ==
    (op.kind = "importSettings" /\ Len(op.calls) >= 1
        /\ op.calls[1].outcome # "ok") =>
        /\ op.pc = "done"
        /\ op.calls[1].file = SettingsName
        /\ Len(op.calls) = 1
        /\ call["fetch"].pc = "idle"
        /\ op.writes = <<>>
        /\ op.notes = <<OpNote("error", MsgSettingsImportFailed,
                               op.calls[1].error)>>

\* C22 witness: the store had no settings.json but had a
\* remote-settings.json, and a path for the machine settings file was
\* there; the import has failed and the user settings file is still there
PrimaryNotFoundWitness ==
    /\ op.kind = "importSettings"
    /\ op.pc = "done"
    /\ Len(op.calls) = 1
    /\ op.calls[1].asked
    /\ op.calls[1].absent
    /\ op.calls[1].error = NotFoundError(SettingsName)
    /\ remote[RemoteSettingsName] # Absent
    /\ remoteEnv
    /\ localFiles["user"] = <<(<<8364>>)>>
    /\ op.writes = <<>>

====
